---- MODULE Spec2Model ----
(***************************************************************************)
(* Hierarchical configuration resolution of goedu-theta                    *)
(* (internal/config): NewConfig, LoadFromJSONFile, OverrideFromEnv.        *)
(*                                                                         *)
(* Go strings are sequences of one-character strings, so that the text     *)
(* conversions (strconv.ParseBool, strconv.Atoi) are computed on the text. *)
(* Field names, JSON keys and environment-variable names are identifiers   *)
(* and stay TLA+ strings.                                                  *)
(***************************************************************************)
EXTENDS Integers, Sequences, FiniteSets, TLC

VARIABLES
    pc,           \* position inside NewConfig
    env,          \* the process environment: variable name -> setting
    fs,           \* the files NewConfig reads: base, per-mode, local, dotenv
    environment,  \* NewConfig's local variable `environment`
    cfg,          \* NewConfig's local variable `cfg`
    ret,          \* what NewConfig returned: (*Config, error)
    previous,     \* what the previous call of NewConfig returned, if any
    instance,     \* logger package: var instance *slog.Logger
    mu,           \* logger package: var mu sync.RWMutex
    slogDefault,  \* log/slog: the process-wide default logger
    created,      \* how many loggers slog.New has made so far
    g,            \* the goroutines that call the logger package
    manager,      \* database: the *MongoDBManager, once there is one
    client,       \* database: the mongo.Client of the latest NewMongoDBManager
    dbcall,       \* database: the last call and what it returned
    inflight,     \* database: the Ping and Close calls goroutines are inside
    httpServer,   \* server: the *Server and the state of its listener
    srvcall,      \* server: the last call and what it returned
    net,          \* what the network offers: MongoDB reachable, port free
    mainPc,       \* position inside main
    deferred      \* main: the deferred calls, last registered first

configVars   == <<pc, env, fs, environment, cfg, ret, previous>>
loggerVars   == <<instance, mu, slogDefault, created, g>>
databaseVars == <<manager, client, dbcall, inflight>>
serverVars   == <<httpServer, srvcall>>
mainVars     == <<net, mainPc, deferred>>

\* everything NewConfig does not touch
outsideConfig == <<loggerVars, databaseVars, serverVars, mainVars>>

vars == <<configVars, loggerVars, databaseVars, serverVars, mainVars>>

----------------------------------------------------------------------------
(* Text used by the code and by the inputs *)

development == <<"d","e","v","e","l","o","p","m","e","n","t">>
test        == <<"t","e","s","t">>
staging     == <<"s","t","a","g","i","n","g">>
production  == <<"p","r","o","d","u","c","t","i","o","n">>
localhost   == <<"l","o","c","a","l","h","o","s","t">>

\* the environments NewConfig accepts (the switch of NewConfig)
ValidEnvironments == {development, test, staging, production}

----------------------------------------------------------------------------
(* Values of configuration fields: a Go string, bool or int *)

StrV(s)  == [k |-> "string", s |-> s,    n |-> 0, b |-> FALSE]
IntV(n)  == [k |-> "int",    s |-> <<>>, n |-> n, b |-> FALSE]
BoolV(b) == [k |-> "bool",   s |-> <<>>, n |-> 0, b |-> b]

\* Go's zero value of a scalar kind
ZeroValue(kind) ==
    CASE kind = "string" -> StrV(<<>>)
      [] kind = "int"    -> IntV(0)
      [] kind = "bool"   -> BoolV(FALSE)

----------------------------------------------------------------------------
(* The schema: struct types with their json and env tags, in declared      *)
(* field order.                                                            *)

Leaf(name, json, envTag, kind) ==
    [name |-> name, json |-> json, env |-> envTag, kind |-> kind, fields |-> <<>>]

Struct(name, json, envTag, fields) ==
    [name |-> name, json |-> json, env |-> envTag, kind |-> "struct", fields |-> fields]

LoggerType ==
    << Leaf("Level",     "level",      "SLOG_LEVEL",      "string"),
       Leaf("Format",    "format",     "SLOG_FORMAT",     "string"),
       Leaf("Output",    "output",     "SLOG_OUTPUT",     "string"),
       Leaf("AddSource", "add_source", "SLOG_ADD_SOURCE", "bool") >>

ServerType ==
    << Leaf("Port",            "port",             "SERVER_PORT",             "int"),
       Leaf("Host",            "host",             "SERVER_HOST",             "string"),
       Leaf("ReadTimeout",     "read_timeout",     "SERVER_READ_TIMEOUT",     "int"),
       Leaf("WriteTimeout",    "write_timeout",    "SERVER_WRITE_TIMEOUT",    "int"),
       Leaf("ShutdownTimeout", "shutdown_timeout", "SERVER_SHUTDOWN_TIMEOUT", "int") >>

DatabaseType ==
    << Leaf("Host",         "host",           "DATABASE_HOST",           "string"),
       Leaf("Port",         "port",           "DATABASE_PORT",           "int"),
       Leaf("User",         "user",           "DATABASE_USER",           "string"),
       Leaf("Password",     "password",       "DATABASE_PASSWORD",       "string"),
       Leaf("Name",         "name",           "DATABASE_NAME",           "string"),
       Leaf("IsAtlas",      "is_atlas",       "DATABASE_IS_ATLAS",       "bool"),
       Leaf("AtlasAppName", "atlas_app_name", "DATABASE_ATLAS_APP_NAME", "string") >>

TestType ==
    << Leaf("Label_default",  "label_def",      "TEST_LABEL_DEF",      "string"),
       Leaf("Label_env",      "label_env",      "TEST_LABEL_ENV",      "string"),
       Leaf("Label_override", "label_override", "TEST_LABEL_OVERRIDE", "string") >>

ConfigType ==
    << Leaf("Environment", "environment", "ENVIRONMENT", "string"),
       Struct("Logger",   "logger",   "LOGGER",   LoggerType),
       Struct("Server",   "server",   "SERVER",   ServerType),
       Struct("Database", "database", "DATABASE", DatabaseType),
       Struct("Test",     "test",     "TEST",     TestType) >>

\* fullFieldName of processStruct: prefix + "." + field.Name, or the bare
\* name at the root
FullFieldName(prefix, name) ==
    IF prefix = "" THEN name ELSE prefix \o "." \o name

\* every field of the schema, flattened: full Go name, full json path, the
\* json path of the enclosing section ("" at the root), env tag, kind
RECURSIVE FieldsOf(_, _, _)
FieldsOf(structType, prefix, jprefix) ==
    UNION { LET fld == structType[i]
                me  == [name   |-> FullFieldName(prefix, fld.name),
                        jpath  |-> FullFieldName(jprefix, fld.json),
                        parent |-> jprefix,
                        env    |-> fld.env,
                        kind   |-> fld.kind]
            IN  IF fld.kind = "struct"
                THEN {me} \cup FieldsOf(fld.fields, me.name, me.jpath)
                ELSE {me}
          : i \in 1..Len(structType) }

AllFields   == FieldsOf(ConfigType, "", "")
ScalarFields == {f \in AllFields : f.kind # "struct"}
Sections     == {f \in AllFields : f.kind = "struct"}

FieldNames == {f.name : f \in ScalarFields}   \* the keys of a Config value
JsonPaths  == {f.jpath : f \in AllFields}      \* the keys a document can hold
EnvVars    == {f.env : f \in AllFields}        \* the variables the walk reads

FieldNamed(name) == CHOOSE f \in AllFields : f.name = name

\* a Config whose fields all hold Go's zero value: `var cfg Config`
ZeroConfig ==
    [name \in FieldNames |-> ZeroValue(FieldNamed(name).kind)]

\* the compiled-in defaults
NewDefaultConfig ==
    [ZeroConfig EXCEPT
        !["Environment"]            = StrV(development),
        !["Logger.Level"]           = StrV(<<"d","e","b","u","g">>),
        !["Logger.Format"]          = StrV(<<"t","e","x","t">>),
        !["Logger.Output"]          = StrV(<<"s","t","d","o","u","t">>),
        !["Logger.AddSource"]       = BoolV(TRUE),
        !["Server.Port"]            = IntV(8080),
        !["Server.Host"]            = StrV(localhost),
        !["Server.ReadTimeout"]     = IntV(30),
        !["Server.WriteTimeout"]    = IntV(30),
        !["Server.ShutdownTimeout"] = IntV(15),
        !["Database.Host"]          = StrV(localhost),
        !["Database.Port"]          = IntV(27017),
        !["Database.User"]          = StrV(<<"u","s","e","r">>),
        !["Database.Password"]      = StrV(<<"p","a","s","s">>),
        !["Database.Name"]          = StrV(<<"d","a","t","a","b","a","s","e">>)]

----------------------------------------------------------------------------
(* The process environment and the .env mapping *)

Unset     == [set |-> FALSE, v |-> <<>>]
SetTo(v)  == [set |-> TRUE,  v |-> v]

\* os.Getenv: the setting, or "" when the variable is not set
Getenv(name) == IF env[name].set THEN env[name].v ELSE <<>>

EmptyMap == [name \in EnvVars |-> Unset]

\* godotenv.Read: the KEY=VALUE pairs of the file, or an error
godotenvRead(dotenvFile) ==
    IF dotenvFile.kind = "map"
    THEN [map |-> dotenvFile.map, err |-> FALSE]
    ELSE [map |-> EmptyMap,       err |-> TRUE]

----------------------------------------------------------------------------
(* Text conversions of the standard library *)

\* faulty variant: ParseBool also takes yes/no and on/off and ignores case
\* of the first letter only
ParseBool_Lenient(str) ==
    CASE str \in { <<"1">>, <<"t">>, <<"T">>, <<"T","R","U","E">>,
                   <<"t","r","u","e">>, <<"T","r","u","e">>,
                   <<"y","e","s">>, <<"o","n">> }
           -> [ok |-> TRUE, b |-> TRUE]
      [] str \in { <<"0">>, <<"f">>, <<"F">>, <<"F","A","L","S","E">>,
                   <<"f","a","l","s","e">>, <<"F","a","l","s","e">>,
                   <<"n","o">>, <<"o","f","f">> }
           -> [ok |-> TRUE, b |-> FALSE]
      [] OTHER -> [ok |-> FALSE, b |-> FALSE]

\* strconv.ParseBool: exactly these twelve spellings
ParseBool(str) ==
    CASE str \in { <<"1">>, <<"t">>, <<"T">>, <<"T","R","U","E">>,
                   <<"t","r","u","e">>, <<"T","r","u","e">> }
           -> [ok |-> TRUE, b |-> TRUE]
      [] str \in { <<"0">>, <<"f">>, <<"F">>, <<"F","A","L","S","E">>,
                   <<"f","a","l","s","e">>, <<"F","a","l","s","e">> }
           -> [ok |-> TRUE, b |-> FALSE]
      [] OTHER -> [ok |-> FALSE, b |-> FALSE]

DigitChars == {"0","1","2","3","4","5","6","7","8","9"}

DigitValue(c) ==
    CASE c = "0" -> 0 [] c = "1" -> 1 [] c = "2" -> 2 [] c = "3" -> 3
      [] c = "4" -> 4 [] c = "5" -> 5 [] c = "6" -> 6 [] c = "7" -> 7
      [] c = "8" -> 8 [] c = "9" -> 9

RECURSIVE DecimalValue(_, _)
DecimalValue(digits, acc) ==
    IF digits = <<>> THEN acc
    ELSE DecimalValue(Tail(digits), acc * 10 + DigitValue(Head(digits)))

\* strconv.Atoi: an optional sign, then one or more decimal digits.  (The
\* range error of numerals beyond 64 bits needs 19 digits or more, which no
\* text of the model has.)
Atoi(str) ==
    LET signed == Len(str) > 0 /\ str[1] \in {"+", "-"}
        digits == IF signed THEN Tail(str) ELSE str
    IN  IF digits = <<>> \/ \E i \in 1..Len(digits) : digits[i] \notin DigitChars
        THEN [ok |-> FALSE, n |-> 0]
        ELSE [ok |-> TRUE,
              n  |-> IF signed /\ str[1] = "-"
                     THEN 0 - DecimalValue(digits, 0)
                     ELSE DecimalValue(digits, 0)]

----------------------------------------------------------------------------
(* OverrideFromEnv *)

\* setField(field, value, fieldName): store `value`, converted to the
\* field's kind, in field `name` of c.  ok = FALSE leaves the field alone.
\* (field.CanSet() holds for every field of the schema: they are exported
\* fields reached through a pointer.)
\* faulty variant: a failed conversion stores the zero value of the field
setField_ZeroOnError(c, name, kind, value) ==
    CASE kind = "string" -> [ok |-> TRUE, cfg |-> [c EXCEPT ![name] = StrV(value)]]
      [] kind = "bool"   ->
            [ok |-> ParseBool(value).ok,
             cfg |-> [c EXCEPT ![name] = BoolV(ParseBool(value).b)]]
      [] kind = "int"    ->
            [ok |-> Atoi(value).ok,
             cfg |-> [c EXCEPT ![name] = IntV(Atoi(value).n)]]
      [] OTHER           -> [ok |-> FALSE, cfg |-> c]

\* faulty variant: an integer setting is added to the field instead of stored
setField_Accumulates(c, name, kind, value) ==
    CASE kind = "string" -> [ok |-> TRUE, cfg |-> [c EXCEPT ![name] = StrV(value)]]
      [] kind = "bool"   ->
            LET p == ParseBool(value)
            IN  IF p.ok THEN [ok |-> TRUE, cfg |-> [c EXCEPT ![name] = BoolV(p.b)]]
                ELSE [ok |-> FALSE, cfg |-> c]
      [] kind = "int"    ->
            LET p == Atoi(value)
            IN  IF p.ok THEN [ok |-> TRUE, cfg |-> [c EXCEPT ![name] = IntV(c[name].n + p.n)]]
                ELSE [ok |-> FALSE, cfg |-> c]
      [] OTHER           -> [ok |-> FALSE, cfg |-> c]

setField(c, name, kind, value) ==
    CASE kind = "string" -> [ok |-> TRUE, cfg |-> [c EXCEPT ![name] = StrV(value)]]
      [] kind = "bool"   ->
            LET p == ParseBool(value)
            IN  IF p.ok THEN [ok |-> TRUE, cfg |-> [c EXCEPT ![name] = BoolV(p.b)]]
                ELSE [ok |-> FALSE, cfg |-> c]
      [] kind = "int"    ->
            LET p == Atoi(value)
            IN  IF p.ok THEN [ok |-> TRUE, cfg |-> [c EXCEPT ![name] = IntV(p.n)]]
                ELSE [ok |-> FALSE, cfg |-> c]
      [] OTHER           -> [ok |-> FALSE, cfg |-> c]

\* faulty variant: the .env file is not consulted
ResolveOverride_SystemOnly(envTag, dotenvMap) ==
    IF Getenv(envTag) # <<>>
    THEN [source |-> "system_env", value |-> Getenv(envTag)]
    ELSE [source |-> "none", value |-> <<>>]

\* faulty variant: the .env entry is consulted before the process environment
ResolveOverride_DotenvFirst(envTag, dotenvMap) ==
    IF dotenvMap[envTag].set /\ dotenvMap[envTag].v # <<>>
    THEN [source |-> "dotenv_file", value |-> dotenvMap[envTag].v]
    ELSE IF Getenv(envTag) # <<>>
    THEN [source |-> "system_env", value |-> Getenv(envTag)]
    ELSE [source |-> "none", value |-> <<>>]

\* faulty variant: a variable that is set counts, empty or not
ResolveOverride_EmptyCounts(envTag, dotenvMap) ==
    IF env[envTag].set
    THEN [source |-> "system_env", value |-> env[envTag].v]
    ELSE IF dotenvMap[envTag].set
    THEN [source |-> "dotenv_file", value |-> dotenvMap[envTag].v]
    ELSE [source |-> "none", value |-> <<>>]

\* the override of one tagged field: which source supplies it, and what
\* text.  source = "none" is the `continue` of the walk.
ResolveOverride(envTag, dotenvMap) ==
    LET systemValue == Getenv(envTag)
    IN  IF systemValue # <<>>
        THEN [source |-> "system_env", value |-> systemValue]
        ELSE IF dotenvMap[envTag].set /\ dotenvMap[envTag].v # <<>>
        THEN [source |-> "dotenv_file", value |-> dotenvMap[envTag].v]
        ELSE [source |-> "none", value |-> <<>>]

\* processStruct, from field i of structType on: nested structs first, then
\* the field's own env tag
RECURSIVE processStruct(_, _, _, _, _)
\* faulty variant: a section that has a binding of its own is not entered
processStruct_SkipsBoundSections(c, dotenvMap, structType, prefix, i) ==
    IF i > Len(structType) THEN c
    ELSE
        LET field         == structType[i]
            fullFieldName == FullFieldName(prefix, field.name)
            c1 == IF field.kind = "struct" /\ field.env = ""
                  THEN processStruct(c, dotenvMap, field.fields, fullFieldName, 1)
                  ELSE c
            ov == ResolveOverride(field.env, dotenvMap)
            c2 == IF field.env = "" \/ ov.source = "none" THEN c1
                  ELSE setField(c1, fullFieldName, field.kind, ov.value).cfg
        IN  processStruct(c2, dotenvMap, structType, prefix, i + 1)

\* faulty variant: when the text of the process environment does not
\* convert, the .env entry is tried in its place
processStruct_RetriesDotenv(c, dotenvMap, structType, prefix, i) ==
    IF i > Len(structType) THEN c
    ELSE
        LET field         == structType[i]
            fullFieldName == FullFieldName(prefix, field.name)
            c1 == IF field.kind = "struct"
                  THEN processStruct(c, dotenvMap, field.fields, fullFieldName, 1)
                  ELSE c
            ov == ResolveOverride(field.env, dotenvMap)
            first == setField(c1, fullFieldName, field.kind, ov.value)
            c2 == IF field.env = "" \/ ov.source = "none" THEN c1
                  ELSE IF first.ok \/ ~dotenvMap[field.env].set THEN first.cfg
                  ELSE setField(c1, fullFieldName, field.kind,
                                dotenvMap[field.env].v).cfg
        IN  processStruct(c2, dotenvMap, structType, prefix, i + 1)

processStruct(c, dotenvMap, structType, prefix, i) ==
    IF i > Len(structType) THEN c
    ELSE
        LET field         == structType[i]
            fullFieldName == FullFieldName(prefix, field.name)
            c1 == IF field.kind = "struct"
                  THEN processStruct(c, dotenvMap, field.fields, fullFieldName, 1)
                  ELSE c
            ov == ResolveOverride(field.env, dotenvMap)
            c2 == IF field.env = "" \/ ov.source = "none" THEN c1
                  ELSE setField(c1, fullFieldName, field.kind, ov.value).cfg
        IN  processStruct(c2, dotenvMap, structType, prefix, i + 1)

\* faulty variant: a .env file that cannot be read is an error
OverrideFromEnv_DotenvRequired(dotenvFile, c) ==
    LET r == godotenvRead(dotenvFile)
    IN  IF r.err THEN [cfg |-> c, err |-> "dotenv"]
        ELSE [cfg |-> processStruct(c, r.map, ConfigType, "", 1), err |-> "nil"]

\* faulty variant: without a readable .env file the walk is skipped
OverrideFromEnv_NeedsDotenv(dotenvFile, c) ==
    LET r == godotenvRead(dotenvFile)
    IN  [cfg |-> IF r.err THEN c ELSE processStruct(c, r.map, ConfigType, "", 1),
         err |-> "nil"]

\* OverrideFromEnv(dotenvFile, cfg): the overridden config and the error
OverrideFromEnv(dotenvFile, c) ==
    LET r         == godotenvRead(dotenvFile)
        dotenvMap == IF r.err THEN EmptyMap ELSE r.map
    IN  [cfg |-> processStruct(c, dotenvMap, ConfigType, "", 1), err |-> "nil"]

----------------------------------------------------------------------------
(* What OverrideFromEnv and the startup code hand to slog *)

\* the attribute of a record that carries no value
NoValue == [k |-> "none", s |-> <<>>, n |-> 0, b |-> FALSE]

\* one slog record: level, message, and the attributes the calls of
\* OverrideFromEnv use (field, env_var, source, value/raw_value/count)
LogEntry(level, msg, field, envVar, source, value) ==
    [level |-> level, msg |-> msg, field |-> field, env_var |-> envVar,
     source |-> source, value |-> value]

\* the records setField writes for one assignment
setFieldLog(name, kind, value) ==
    CASE kind = "string" ->
            << LogEntry("DEBUG", "Set string field from environment variable",
                        name, "", "", StrV(value)) >>
      [] kind = "bool"   ->
            IF ParseBool(value).ok
            THEN << LogEntry("DEBUG", "Set boolean field from environment variable",
                             name, "", "", BoolV(ParseBool(value).b)) >>
            ELSE << LogEntry("WARN", "Invalid boolean value in environment variable",
                             name, "", "", StrV(value)) >>
      [] kind = "int"    ->
            IF Atoi(value).ok
            THEN << LogEntry("DEBUG", "Set integer field from environment variable",
                             name, "", "", IntV(Atoi(value).n)) >>
            ELSE << LogEntry("WARN", "Invalid integer value in environment variable",
                             name, "", "", StrV(value)) >>
      [] OTHER           ->
            << LogEntry("WARN", "Unsupported field type for environment variable override",
                        name, "", "", StrV(value)) >>

\* the records processStruct writes, from field i of structType on
RECURSIVE processStructLog(_, _, _, _)
processStructLog(dotenvMap, structType, prefix, i) ==
    IF i > Len(structType) THEN <<>>
    ELSE
        LET field         == structType[i]
            fullFieldName == FullFieldName(prefix, field.name)
            nested == IF field.kind = "struct"
                      THEN << LogEntry("DEBUG", "Processing nested struct",
                                       fullFieldName, "", "", NoValue) >>
                           \o processStructLog(dotenvMap, field.fields, fullFieldName, 1)
                      ELSE <<>>
            ov  == ResolveOverride(field.env, dotenvMap)
            own == IF field.env = "" THEN <<>>
                   ELSE IF ov.source = "none"
                   THEN << LogEntry("DEBUG", "No environment override found for field",
                                    fullFieldName, field.env, "", NoValue) >>
                   ELSE << LogEntry("DEBUG", "Applying environment variable override",
                                    fullFieldName, field.env, ov.source, NoValue) >>
                        \o setFieldLog(fullFieldName, field.kind, ov.value)
                        \o << IF setField(ZeroConfig, fullFieldName, field.kind, ov.value).ok
                              THEN LogEntry("INFO",
                                     "Successfully applied environment variable override",
                                     fullFieldName, field.env, ov.source, NoValue)
                              ELSE LogEntry("WARN",
                                     "Failed to apply environment variable override",
                                     fullFieldName, field.env, ov.source, NoValue) >>
        IN  nested \o own \o processStructLog(dotenvMap, structType, prefix, i + 1)

\* the records of one OverrideFromEnv call, in order
OverrideFromEnvLog(dotenvFile) ==
    LET r         == godotenvRead(dotenvFile)
        dotenvMap == IF r.err THEN EmptyMap ELSE r.map
    IN  << LogEntry("DEBUG", "Starting environment variable override process",
                    "", "", "", NoValue),
           LogEntry("DEBUG", "Loading .env file for environment variable defaults",
                    "", "", "", NoValue),
           IF r.err
           THEN LogEntry("WARN", "Could not load .env file - will only use system environment variables",
                         "", "", "", NoValue)
           ELSE LogEntry("DEBUG", "Successfully loaded .env file", "", "", "",
                         IntV(Cardinality({name \in EnvVars : r.map[name].set}))),
           LogEntry("DEBUG", "Starting recursive struct field processing",
                    "", "", "", NoValue) >>
        \o processStructLog(dotenvMap, ConfigType, "", 1)
        \o << LogEntry("DEBUG",
                "Environment variable override processing completed successfully",
                "", "", "", NoValue) >>

\* main: slog.Debug("Configuration loaded successfully", slog.Any("config", cfg)):
\* the handler prints the struct the pointer refers to, every field of it
ConfigLoadedLog(c) ==
    [level |-> "DEBUG", msg |-> "Configuration loaded successfully", config |-> c]

LevelRank(level) ==
    CASE level = "DEBUG" -> 0 [] level = "INFO" -> 1
      [] level = "WARN" -> 2 [] level = "ERROR" -> 3

\* the level of the bootstrap logger, which is the slog default while
\* NewConfig runs: ERROR in production, DEBUG anywhere else
BootstrapLevel ==
    IF Getenv("ENVIRONMENT") = production THEN "ERROR" ELSE "DEBUG"

\* what a handler of the given level lets through
HandlerOutput(entries, level) ==
    SelectSeq(entries, LAMBDA e : LevelRank(e.level) >= LevelRank(level))

----------------------------------------------------------------------------
(* Structured files *)

\* a JSON value as the decoder sees it: its type and, for a scalar, its value
JAbsent  == [t |-> "absent", s |-> <<>>, n |-> 0, b |-> FALSE]  \* key not in the document
JNull    == [t |-> "null",   s |-> <<>>, n |-> 0, b |-> FALSE]
JObject  == [t |-> "object", s |-> <<>>, n |-> 0, b |-> FALSE]
JOther   == [t |-> "other",  s |-> <<>>, n |-> 0, b |-> FALSE]  \* array, fraction, ...
JStr(s)  == [t |-> "string", s |-> s,    n |-> 0, b |-> FALSE]
JNum(n)  == [t |-> "number", s |-> <<>>, n |-> n, b |-> FALSE]
JBool(b) == [t |-> "bool",   s |-> <<>>, n |-> 0, b |-> b]

\* whether the decoder can store JSON value jv in a field of this kind
Fits(jv, kind) ==
    \/ kind = "string" /\ jv.t = "string"
    \/ kind = "int"    /\ jv.t = "number"
    \/ kind = "bool"   /\ jv.t = "bool"

\* the Go value a fitting JSON value decodes to
Decoded(jv) ==
    CASE jv.t = "string" -> StrV(jv.s)
      [] jv.t = "number" -> IntV(jv.n)
      [] jv.t = "bool"   -> BoolV(jv.b)

\* json.Unmarshal of an object into a struct, from field i of structType on.
\* r = [cfg, err]: the struct so far and whether a type error was saved.  An
\* absent key and a null leave the field alone; a value of the wrong type is
\* skipped, the error is saved and decoding goes on.
RECURSIVE decodeObject(_, _, _, _, _, _)
decodeObject(r, doc, structType, prefix, jprefix, i) ==
    IF i > Len(structType) THEN r
    ELSE
        LET field == structType[i]
            full  == FullFieldName(prefix, field.name)
            jpath == FullFieldName(jprefix, field.json)
            jv    == doc[jpath]
            r1 == CASE jv.t \in {"absent", "null"} -> r
                    [] field.kind = "struct" /\ jv.t = "object"
                         -> decodeObject(r, doc, field.fields, full, jpath, 1)
                    [] field.kind # "struct" /\ Fits(jv, field.kind)
                         -> [r EXCEPT !.cfg[full] = Decoded(jv)]
                    [] OTHER -> [r EXCEPT !.err = TRUE]
        IN  decodeObject(r1, doc, structType, prefix, jprefix, i + 1)

\* json.Unmarshal(data, cfg): a syntax error is found before anything is
\* stored; a top-level null stores nothing; a top-level value that is no
\* object is a type error
jsonUnmarshal(file, c) ==
    CASE file.kind = "syntax"    -> [cfg |-> c, err |-> TRUE]
      [] file.kind = "null"      -> [cfg |-> c, err |-> FALSE]
      [] file.kind = "nonobject" -> [cfg |-> c, err |-> TRUE]
      [] file.kind = "object"    ->
            decodeObject([cfg |-> c, err |-> FALSE], file.doc, ConfigType, "", "", 1)

\* faulty variant: the document is decoded into a fresh Config that replaces *cfg
LoadFromJSONFile_IntoFresh(file, c) ==
    CASE file.kind = "missing" -> [cfg |-> c, err |-> "not_found"]
      [] file.kind = "denied"  -> [cfg |-> c, err |-> "permission_denied"]
      [] OTHER ->
            LET u == jsonUnmarshal(file, ZeroConfig)
            IN  IF u.err THEN [cfg |-> c, err |-> "invalid_json"]
                ELSE [cfg |-> u.cfg, err |-> "nil"]

\* faulty variant: an empty or zero value of the document counts as not given
LoadFromJSONFile_ZeroIsUnset(file, c) ==
    CASE file.kind = "missing" -> [cfg |-> c, err |-> "not_found"]
      [] file.kind = "denied"  -> [cfg |-> c, err |-> "permission_denied"]
      [] OTHER ->
            LET u == jsonUnmarshal(file, c)
            IN  [cfg |-> [n \in FieldNames |->
                            IF u.cfg[n] = ZeroConfig[n] THEN c[n] ELSE u.cfg[n]],
                 err |-> IF u.err THEN "invalid_json" ELSE "nil"]

\* LoadFromJSONFile(filePath, cfg): the config after the call and the error
LoadFromJSONFile(file, c) ==
    CASE file.kind = "missing" -> [cfg |-> c, err |-> "not_found"]
      [] file.kind = "denied"  -> [cfg |-> c, err |-> "permission_denied"]
      [] OTHER ->
            LET u == jsonUnmarshal(file, c)
            IN  [cfg |-> u.cfg, err |-> IF u.err THEN "invalid_json" ELSE "nil"]

----------------------------------------------------------------------------
(* NewConfig *)

NoConfig == ZeroConfig   \* placeholder carried with a nil *Config

\* the (*Config, error) pair NewConfig returns
Returned(c)  == [nil |-> FALSE, cfg |-> c,        err |-> "nil"]
Failed(why)  == [nil |-> TRUE,  cfg |-> NoConfig, err |-> why]
NotReturned  == [nil |-> TRUE,  cfg |-> NoConfig, err |-> "pending"]

\* environment := os.Getenv("ENVIRONMENT"), then the switch that keeps a
\* valid value and replaces anything else by "development"
DetermineEnvironment ==
    /\ pc = "start"
    /\ environment' = IF Getenv("ENVIRONMENT") \in ValidEnvironments
                      THEN Getenv("ENVIRONMENT")
                      ELSE development
    /\ pc' = "init"
    /\ UNCHANGED <<env, fs, cfg, ret, previous>>
    /\ UNCHANGED outsideConfig

\* var cfg Config; cfg.Environment = environment
InitConfig ==
    /\ pc = "init"
    /\ cfg' = [ZeroConfig EXCEPT !["Environment"] = StrV(environment)]
    /\ pc' = "base"
    /\ UNCHANGED <<env, fs, environment, ret, previous>>
    /\ UNCHANGED outsideConfig

\* faulty variant: a failing base file is logged and skipped like the optional files
LoadBaseConfig_Tolerant ==
    /\ pc = "base"
    /\ cfg' = LoadFromJSONFile(fs.base, cfg).cfg
    /\ pc' = "environment"
    /\ UNCHANGED <<env, fs, environment, ret, previous>>
    /\ UNCHANGED outsideConfig

\* LoadFromJSONFile(base_config_file, &cfg); an error is returned
LoadBaseConfig ==
    /\ pc = "base"
    /\ LET r == LoadFromJSONFile(fs.base, cfg)
       IN  IF r.err # "nil"
           THEN /\ ret' = Failed("failed to load base configuration")
                /\ cfg' = r.cfg
                /\ pc' = "done"
           ELSE /\ cfg' = r.cfg
                /\ pc' = "environment"
                /\ UNCHANGED ret
    /\ UNCHANGED <<env, fs, environment, previous>>
    /\ UNCHANGED outsideConfig

\* LoadFromJSONFile(environment_config_file, &cfg); an error is logged
LoadEnvironmentConfig ==
    /\ pc = "environment"
    /\ cfg' = LoadFromJSONFile(fs.mode[environment], cfg).cfg
    /\ pc' = "local"
    /\ UNCHANGED <<env, fs, environment, ret, previous>>
    /\ UNCHANGED outsideConfig

\* faulty variant: the local file is applied first and the environment-specific
\* file once more on top of it
LoadLocalConfig_BelowEnvironment ==
    /\ pc = "local"
    /\ cfg' = LoadFromJSONFile(fs.mode[environment],
                               LoadFromJSONFile(fs.local, cfg).cfg).cfg
    /\ pc' = "override"
    /\ UNCHANGED <<env, fs, environment, ret, previous>>
    /\ UNCHANGED outsideConfig

\* LoadFromJSONFile(local_config_file, &cfg); an error is logged
LoadLocalConfig ==
    /\ pc = "local"
    /\ cfg' = LoadFromJSONFile(fs.local, cfg).cfg
    /\ pc' = "override"
    /\ UNCHANGED <<env, fs, environment, ret, previous>>
    /\ UNCHANGED outsideConfig

\* OverrideFromEnv(dotenv_file, &cfg); an error is returned
ApplyOverrides ==
    /\ pc = "override"
    /\ LET r == OverrideFromEnv(fs.dotenv, cfg)
       IN  IF r.err # "nil"
           THEN /\ ret' = Failed("failed to apply environment overrides")
                /\ cfg' = r.cfg
                /\ pc' = "done"
           ELSE /\ cfg' = r.cfg
                /\ pc' = "return"
                /\ UNCHANGED ret
    /\ UNCHANGED <<env, fs, environment, previous>>
    /\ UNCHANGED outsideConfig

\* return &cfg, nil
ReturnConfig ==
    /\ pc = "return"
    /\ ret' = Returned(cfg)
    /\ pc' = "done"
    /\ UNCHANGED <<env, fs, environment, cfg, previous>>
    /\ UNCHANGED outsideConfig

\* the caller calls NewConfig once more, with the files and the process
\* environment as they are; the new call has fresh locals
CallAgain ==
    /\ pc = "done"
    /\ previous = NotReturned
    /\ previous' = ret
    /\ ret' = NotReturned
    /\ environment' = <<>>
    /\ cfg' = ZeroConfig
    /\ pc' = "start"
    /\ UNCHANGED <<env, fs>>
    /\ UNCHANGED outsideConfig

Next ==
    \/ DetermineEnvironment
    \/ InitConfig
    \/ LoadBaseConfig
    \/ LoadEnvironmentConfig
    \/ LoadLocalConfig
    \/ ApplyOverrides
    \/ ReturnConfig

----------------------------------------------------------------------------
(* The packages around NewConfig at process start: internal/logger,        *)
(* internal/database, internal/server and main.                            *)

Goroutines == {"main", "worker"}

\* a *slog.Logger: identity, handler level, handler kind, AddSource and the
\* io.Writer its handler was created with
Logger(id, level, handler, addSource, writer) ==
    [id |-> id, level |-> level, handler |-> handler, addSource |-> addSource,
     writer |-> writer]

NilLogger == Logger(0, "", "", FALSE, "")                  \* the nil pointer
StdLogger == Logger(-1, "INFO", "std", FALSE, "os.Stderr") \* log/slog's built-in default

\* a config.Logger argument; none for the calls that take no argument
NoArg == [Level |-> <<>>, Format |-> <<>>, Output |-> <<>>, AddSource |-> FALSE]

\* a goroutine that is in no call of the logger package
Idle(result) ==
    [op |-> "none", pc |-> "idle", caller |-> "", arg |-> NoArg,
     logger |-> NilLogger, result |-> result]

\* a free RWMutex
Unlocked == [writer |-> "", readers |-> {}]

LoggerInit ==
    /\ instance = NilLogger
    /\ mu = Unlocked
    /\ slogDefault = StdLogger
    /\ created = 0
    /\ g = [p \in Goroutines |-> Idle(NilLogger)]

NoManager == [nil |-> TRUE, isConnected |-> FALSE]

\* a config.Database value; the zero value where a call takes none
Database(host, port, user, password, name, isAtlas) ==
    [Host |-> host, Port |-> port, User |-> user, Password |-> password,
     Name |-> name, IsAtlas |-> isAtlas]

NoDatabase == Database(<<>>, 0, <<>>, <<>>, <<>>, FALSE)

\* a finished call: the function, its argument, the error and the value it
\* returned, and the function called before it
Called(op, arg, err, value, prev) ==
    [op |-> op, arg |-> arg, err |-> err, value |-> value, prev |-> prev]

NoCall == Called("none", NoDatabase, "nil", FALSE, "none")

\* a goroutine's call of a manager method: which one, where it is, and the
\* error it got from the driver
InCall(op, at, err) == [op |-> op, pc |-> at, err |-> err]
NotInCall == InCall("none", "idle", "nil")

DatabaseInit ==
    /\ manager = NoManager
    /\ client = "none"
    /\ dbcall = NoCall
    /\ inflight = [p \in Goroutines |-> NotInCall]

\* a config.Server value
Server(host, port, readTimeout, writeTimeout, shutdownTimeout) ==
    [Host |-> host, Port |-> port, ReadTimeout |-> readTimeout,
     WriteTimeout |-> writeTimeout, ShutdownTimeout |-> shutdownTimeout]

\* no *Server yet
NoServer == [nil |-> TRUE, config |-> Server(<<>>, 0, 0, 0, 0), listener |-> "none"]

\* a finished call of the server package: the method and the error it
\* returned
ServerCalled(op, err) == [op |-> op, err |-> err]

ServerInit ==
    /\ httpServer = NoServer
    /\ srvcall = ServerCalled("none", "nil")

\* main has not started
MainInit ==
    /\ mainPc = "start"
    /\ deferred = <<>>

\* everything but NewConfig's own state at process start, with a network
\* that offers a reachable MongoDB and a free port
OutsideConfigInit ==
    /\ LoggerInit
    /\ DatabaseInit
    /\ ServerInit
    /\ MainInit
    /\ net = [mongo |-> "up", portFree |-> TRUE]

----------------------------------------------------------------------------
(* The inputs: what the files hold and what the process environment sets.  *)
(* Every field is handled by the same code, so the inputs vary one field   *)
(* of each kind (the focus), at the root and inside a section, and one     *)
(* section; the remaining fields are given fixed values to be preserved.   *)

MaxNum == 1   \* JSON numbers of the documents are 0..MaxNum

warn == <<"w","a","r","n">>
qa   == <<"q","a">>

FocusFields ==
    { FieldNamed("Environment"), FieldNamed("Logger.Level"),
      FieldNamed("Logger.AddSource"), FieldNamed("Server.Port"),
      FieldNamed("Logger") }

\* JSON values of the field's own type, and one of another type
TypedValues(kind) ==
    CASE kind = "string" -> {JStr(<<>>), JStr(warn)}
      [] kind = "int"    -> {JNum(n) : n \in 0..MaxNum}
      [] kind = "bool"   -> {JBool(FALSE), JBool(TRUE)}
      [] kind = "struct" -> {JObject}

WrongValue(kind) ==
    CASE kind = "string" -> JNum(1)
      [] kind = "struct" -> JOther
      [] OTHER           -> JStr(warn)

JsonPool(kind) == TypedValues(kind) \cup {JNull, WrongValue(kind), JAbsent}

EmptyDoc == [p \in JsonPaths |-> JAbsent]

\* doc with key f.jpath holding jv (and the enclosing section an object)
DocWith(doc, f, jv) ==
    IF jv = JAbsent THEN doc
    ELSE IF f.parent = "" THEN [doc EXCEPT ![f.jpath] = jv]
    ELSE [doc EXCEPT ![f.jpath] = jv, ![f.parent] = JObject]

\* a document that gives non-zero values to fields of several sections
Background ==
    [EmptyDoc EXCEPT
        !["logger"]            = JObject,
        !["logger.level"]      = JStr(<<"i","n","f","o">>),
        !["logger.add_source"] = JBool(TRUE),
        !["server"]            = JObject,
        !["server.port"]       = JNum(8080),
        !["server.host"]       = JStr(localhost),
        !["database"]          = JObject,
        !["database.password"] = JStr(<<"s","3">>)]

ObjectFile(doc) == [kind |-> "object", doc |-> doc]
OtherFile(kind) == [kind |-> kind,     doc |-> EmptyDoc]

DotenvMap(map)    == [kind |-> "map", map |-> map]
DotenvOther(kind) == [kind |-> kind,  map |-> EmptyMap]

\* texts an environment variable or a .env entry can hold
RawTexts ==
    { <<>>, <<"1">>, <<"0">>, <<"t","r","u","e">>, <<"n","o">>, <<"+","2">> }

\* the mode files: the file `m` at configs/config.<at>.json, no other
ModeFiles(at, m) ==
    [e \in ValidEnvironments |-> IF e = at THEN m ELSE OtherFile("missing")]

\* the process environment with ENVIRONMENT = ms, f's variable = es and,
\* when `more`, SERVER_HOST set as well
EnvOf(f, ms, es, more) ==
    [name \in EnvVars |->
        IF name = f.env THEN es
        ELSE IF name = "ENVIRONMENT" THEN ms
        ELSE IF name \in {"SERVER_HOST", "SERVER"} /\ more THEN SetTo(qa)
        ELSE Unset]

\* the .env file with f's variable = ds and DATABASE_NAME set
DotenvOf(f, ds) ==
    DotenvMap([name \in EnvVars |->
        IF name = f.env THEN ds
        ELSE IF name = "DATABASE_NAME" THEN SetTo(qa)
        ELSE Unset])

\* many file contents, few overrides
InitFiles ==
    \E f \in FocusFields :
    \E b \in {OtherFile("missing"), OtherFile("denied"), OtherFile("syntax")}
             \cup {ObjectFile(DocWith(bg, f, jv)) :
                       bg \in {EmptyDoc, Background}, jv \in JsonPool(f.kind)},
       m \in {OtherFile("missing"), OtherFile("syntax"), OtherFile("nonobject")}
             \cup {ObjectFile(DocWith(EmptyDoc, f, jv)) : jv \in JsonPool(f.kind)},
       l \in {OtherFile("missing"), OtherFile("denied"), OtherFile("null")}
             \cup {ObjectFile(DocWith(EmptyDoc, f, jv)) : jv \in JsonPool(f.kind)},
       ms \in {Unset, SetTo(production)},
       ov \in { <<Unset, DotenvOther("missing")>>,
                <<Unset, DotenvOf(f, SetTo(<<"0">>))>>,
                <<SetTo(<<"1">>), DotenvOf(f, SetTo(<<"0">>))>> } :
        /\ env = EnvOf(f, ms, ov[1], FALSE)
        /\ fs = [base |-> b,
                 mode |-> ModeFiles(IF ms.set THEN ms.v ELSE development, m),
                 local |-> l, dotenv |-> ov[2]]

\* many overrides, few file contents
InitOverrides ==
    \E f \in FocusFields :
    \E b \in {OtherFile("missing"), ObjectFile(EmptyDoc), ObjectFile(Background)},
       m \in {OtherFile("missing")}
             \cup {ObjectFile(DocWith(EmptyDoc, f, jv)) : jv \in TypedValues(f.kind)},
       es \in {Unset} \cup {SetTo(t) : t \in RawTexts \cup {qa}},
       d \in {DotenvOther("missing"), DotenvOther("denied"), DotenvOther("malformed")}
             \cup {DotenvOf(f, ds) : ds \in {Unset} \cup {SetTo(t) : t \in RawTexts}},
       more \in BOOLEAN :
        /\ env = EnvOf(f, Unset, es, more)
        /\ fs = [base |-> b, mode |-> ModeFiles(development, m),
                 local |-> OtherFile("missing"), dotenv |-> d]

\* the deployment mode: every kind of ENVIRONMENT setting, with the mode
\* file of one environment present
InitModes ==
    \E ms \in {Unset} \cup {SetTo(t) : t \in {<<>>, production, test, staging, development, qa}},
       at \in {development, production},
       m \in {ObjectFile(DocWith(EmptyDoc, FieldNamed("Logger.Level"), JStr(warn))),
              ObjectFile(DocWith(EmptyDoc, FieldNamed("Environment"), JStr(staging)))},
       d \in {DotenvOther("missing"),
              DotenvOf(FieldNamed("Environment"), SetTo(test))} :
        /\ env = EnvOf(FieldNamed("Environment"), ms, ms, FALSE)
        /\ fs = [base |-> ObjectFile(Background), mode |-> ModeFiles(at, m),
                 local |-> OtherFile("missing"), dotenv |-> d]

\* a document of an optional file that sets fields of three sections
Overlay ==
    [EmptyDoc EXCEPT
        !["logger"]        = JObject,
        !["logger.format"] = JStr(qa),
        !["server"]        = JObject,
        !["server.host"]   = JStr(qa),
        !["database"]      = JObject,
        !["database.name"] = JStr(test)]

\* optional files with several keys, one of them holding any kind of value
InitMixed ==
    \E f \in FocusFields :
    \E jv \in JsonPool(f.kind),
       at \in {"environment", "local"},
       b \in {ObjectFile(EmptyDoc), ObjectFile(Background)} :
        LET mixed == ObjectFile(DocWith(Overlay, f, jv))
        IN  /\ env = EnvOf(f, Unset, Unset, FALSE)
            /\ fs = [base |-> b,
                     mode |-> ModeFiles(development,
                                        IF at = "environment" THEN mixed
                                        ELSE OtherFile("missing")),
                     local |-> IF at = "local" THEN mixed ELSE OtherFile("syntax"),
                     dotenv |-> DotenvOther("missing")]

Init ==
    /\ pc = "start"
    /\ environment = <<>>
    /\ cfg = ZeroConfig
    /\ ret = NotReturned
    /\ previous = NotReturned
    /\ (InitFiles \/ InitOverrides \/ InitModes \/ InitMixed)
    /\ OutsideConfigInit

Spec == Init /\ [][Next]_vars

\* two calls of NewConfig in a row, on fewer inputs
InitTwice ==
    /\ pc = "start"
    /\ environment = <<>>
    /\ cfg = ZeroConfig
    /\ ret = NotReturned
    /\ previous = NotReturned
    /\ (InitOverrides \/ InitModes)
    /\ OutsideConfigInit

NextTwice == Next \/ CallAgain

SpecTwice == InitTwice /\ [][NextTwice]_vars

\* texts for a boolean setting: the spellings of true and false in every
\* case pattern, other words for yes and no, numbers, padded text
BoolTexts ==
    { <<"1">>, <<"t">>, <<"T">>, <<"T","R","U","E">>, <<"t","r","u","e">>,
      <<"T","r","u","e">>, <<"0">>, <<"f">>, <<"F">>, <<"F","A","L","S","E">>,
      <<"f","a","l","s","e">>, <<"F","a","l","s","e">>,
      <<"y","e","s">>, <<"n","o">>, <<"o","n">>, <<"o","f","f">>,
      <<"Y","E","S">>, <<"y">>, <<"n">>,
      <<"t","R","u","E">>, <<"f","A","L","S","E">>, <<"t","r","U","E">>,
      <<"F","a","l","s","E">>, <<"t","r">>, <<"2">>, <<"0","1">>, <<"-","1">>,
      <<"t","r","u","e"," ">>, <<" ","1">> }

\* one boolean field set from the process environment or from .env, over a
\* config.json that leaves it false or sets it true
InitBool ==
    /\ pc = "start"
    /\ environment = <<>>
    /\ cfg = ZeroConfig
    /\ ret = NotReturned
    /\ previous = NotReturned
    /\ \E f \in {bf \in ScalarFields : bf.kind = "bool"} :
       \E t \in BoolTexts,
          via  \in {"system_env", "dotenv_file"},
          b \in {ObjectFile(EmptyDoc), ObjectFile(DocWith(Background, f, JBool(TRUE)))} :
           /\ env = EnvOf(f, Unset, IF via = "system_env" THEN SetTo(t) ELSE Unset, FALSE)
           /\ fs = [base |-> b, mode |-> ModeFiles(development, OtherFile("missing")),
                    local |-> OtherFile("missing"),
                    dotenv |-> IF via = "dotenv_file" THEN DotenvOf(f, SetTo(t))
                               ELSE DotenvOther("missing")]
    /\ OutsideConfigInit

SpecBool == InitBool /\ [][Next]_vars

----------------------------------------------------------------------------
(* internal/logger: the singleton and its RWMutex.  A goroutine is inside  *)
(* at most one call; every step below is one statement of that call.       *)

MaxLoggers == 3   \* slog.New is called at most this often

debug  == <<"d","e","b","u","g">>
error  == <<"e","r","r","o","r">>
json   == <<"j","s","o","n">>
pretty == <<"p","r","e","t","t","y">>
stdout  == <<"s","t","d","o","u","t">>
stderr  == <<"s","t","d","e","r","r">>
logFile == <<"/","t","m","p","/","a",".","l","o","g">>

\* the logger arguments ConfigureLogger is called with
LoggerConfigs ==
    { [Level |-> error, Format |-> json,   Output |-> stderr,  AddSource |-> TRUE],
      [Level |-> qa,    Format |-> pretty, Output |-> logFile, AddSource |-> FALSE],
      [Level |-> debug, Format |-> qa,     Output |-> stdout,  AddSource |-> FALSE] }

\* sync.RWMutex: Lock waits for the writer and all readers to leave, RLock
\* for the writer
CanLock  == mu.writer = "" /\ mu.readers = {}
CanRLock == mu.writer = ""

\* calls that may still reach slog.New
Pending == Cardinality({q \in Goroutines : g[q].pc # "idle" /\ g[q].logger = NilLogger})

\* everything the logger package does not touch
outsideLogger == <<configVars, databaseVars, serverVars, mainVars>>

\* a goroutine enters one of the three functions
Call(p, op, arg) ==
    /\ g[p].pc = "idle"
    /\ created + Pending < MaxLoggers
    /\ g' = [g EXCEPT ![p] = [op |-> op, caller |-> "", arg |-> arg,
                              logger |-> NilLogger, result |-> NilLogger,
                              pc |-> IF op = "GetLogger" THEN "rlock" ELSE "lock"]]
    /\ UNCHANGED <<instance, mu, slogDefault, created>>

\* InitializeBootstrapLogger, ConfigureLogger: mu.Lock()
Lock(p) ==
    /\ g[p].pc = "lock"
    /\ CanLock
    /\ mu' = [mu EXCEPT !.writer = p]
    /\ g' = [g EXCEPT ![p].pc = "new"]
    /\ UNCHANGED <<instance, slogDefault, created>>
    /\ UNCHANGED outsideLogger

\* ConfigureLogger: the level switch, with info for anything unknown
LevelOf(text) ==
    CASE text = debug -> "DEBUG"
      [] text = warn  -> "WARN"
      [] text = error -> "ERROR"
      [] OTHER        -> "INFO"

\* ConfigureLogger: the format switch, with the text handler for anything
\* unknown
HandlerOf(text) ==
    CASE text = json   -> "json"
      [] text = pretty -> "pretty"
      [] OTHER         -> "text"

\* ConfigureLogger: the io.Writer handed to the handler constructor in each
\* branch of the format switch
WriterOf(text) ==
    CASE text = json   -> "os.Stdout"
      [] text = pretty -> "os.Stdout"
      [] OTHER         -> "os.Stdout"

\* logger := slog.New(handler), from the environment (bootstrap) or from
\* the argument (ConfigureLogger)
New(p) ==
    /\ g[p].pc = "new"
    /\ created' = created + 1
    /\ g' = [g EXCEPT ![p].pc = "set_instance",
                      ![p].logger =
                          IF g[p].op = "InitializeBootstrapLogger"
                          THEN Logger(created + 1, BootstrapLevel, "text", FALSE,
                                      "os.Stdout")
                          ELSE Logger(created + 1, LevelOf(g[p].arg.Level),
                                      HandlerOf(g[p].arg.Format), g[p].arg.AddSource,
                                      WriterOf(g[p].arg.Format))]
    /\ UNCHANGED <<instance, mu, slogDefault>>
    /\ UNCHANGED outsideLogger

\* instance = logger
SetInstance(p) ==
    /\ g[p].pc = "set_instance"
    /\ instance' = g[p].logger
    /\ g' = [g EXCEPT ![p].pc = "set_default"]
    /\ UNCHANGED <<mu, slogDefault, created>>
    /\ UNCHANGED outsideLogger

\* faulty variant: the new logger is not made the slog default
SetDefault_Skipped(p) ==
    /\ g[p].pc = "set_default"
    /\ g' = [g EXCEPT ![p].pc = "unlock"]
    /\ UNCHANGED <<instance, mu, slogDefault, created>>
    /\ UNCHANGED outsideLogger

\* slog.SetDefault(logger)
SetDefault(p) ==
    /\ g[p].pc = "set_default"
    /\ slogDefault' = g[p].logger
    /\ g' = [g EXCEPT ![p].pc = "unlock"]
    /\ UNCHANGED <<instance, mu, created>>
    /\ UNCHANGED outsideLogger

\* the return of InitializeBootstrapLogger / ConfigureLogger with its
\* deferred mu.Unlock(); inside GetLogger the value goes to GetLogger's
\* return statement
Unlock(p) ==
    /\ g[p].pc = "unlock"
    /\ mu' = [mu EXCEPT !.writer = ""]
    /\ g' = [g EXCEPT ![p] =
                IF g[p].caller = "GetLogger"
                THEN [g[p] EXCEPT !.op = "GetLogger", !.caller = "", !.pc = "return"]
                ELSE Idle(IF g[p].op = "InitializeBootstrapLogger"
                          THEN g[p].logger ELSE NilLogger)]
    /\ UNCHANGED <<instance, slogDefault, created>>
    /\ UNCHANGED outsideLogger

\* GetLogger: mu.RLock()
RLock(p) ==
    /\ g[p].pc = "rlock"
    /\ CanRLock
    /\ mu' = [mu EXCEPT !.readers = @ \cup {p}]
    /\ g' = [g EXCEPT ![p].pc = "check"]
    /\ UNCHANGED <<instance, slogDefault, created>>
    /\ UNCHANGED outsideLogger

\* GetLogger: if instance != nil { defer mu.RUnlock(); return instance };
\* mu.RUnlock()
Check(p) ==
    /\ g[p].pc = "check"
    /\ mu' = [mu EXCEPT !.readers = @ \ {p}]
    /\ g' = [g EXCEPT ![p] = IF instance # NilLogger
                             THEN Idle(instance)
                             ELSE [g[p] EXCEPT !.pc = "wlock"]]
    /\ UNCHANGED <<instance, slogDefault, created>>
    /\ UNCHANGED outsideLogger

\* GetLogger: mu.Lock() of the slow path
WLock(p) ==
    /\ g[p].pc = "wlock"
    /\ CanLock
    /\ mu' = [mu EXCEPT !.writer = p]
    /\ g' = [g EXCEPT ![p].pc = "recheck"]
    /\ UNCHANGED <<instance, slogDefault, created>>
    /\ UNCHANGED outsideLogger

\* GetLogger, holding the write lock: if instance == nil { return
\* InitializeBootstrapLogger() }; return instance.  The call enters
\* InitializeBootstrapLogger with mu still held by this goroutine.
Recheck(p) ==
    /\ g[p].pc = "recheck"
    /\ IF instance = NilLogger
       THEN /\ g' = [g EXCEPT ![p].op = "InitializeBootstrapLogger",
                              ![p].caller = "GetLogger", ![p].pc = "lock"]
            /\ UNCHANGED mu
       ELSE /\ g' = [g EXCEPT ![p] = Idle(instance)]
            /\ mu' = [mu EXCEPT !.writer = ""]
    /\ UNCHANGED <<instance, slogDefault, created>>
    /\ UNCHANGED outsideLogger

\* one statement of the call goroutine p is in
LoggerStep(p) ==
    \/ Lock(p)
    \/ New(p)
    \/ SetInstance(p)
    \/ SetDefault(p)
    \/ Unlock(p)
    \/ RLock(p)
    \/ Check(p)
    \/ WLock(p)
    \/ Recheck(p)

InitializeBootstrapLogger(p) ==
    /\ Call(p, "InitializeBootstrapLogger", NoArg)
    /\ UNCHANGED outsideLogger

ConfigureLogger(p) ==
    /\ \E config \in LoggerConfigs : Call(p, "ConfigureLogger", config)
    /\ UNCHANGED outsideLogger

GetLogger(p) ==
    /\ Call(p, "GetLogger", NoArg)
    /\ UNCHANGED outsideLogger

NextLogger ==
    \E p \in Goroutines :
        \/ InitializeBootstrapLogger(p)
        \/ ConfigureLogger(p)
        \/ GetLogger(p)
        \/ LoggerStep(p)

\* the logger package alone, in a process with ENVIRONMENT unset or
\* production; NewConfig is not running
InitLogger ==
    /\ LoggerInit
    /\ DatabaseInit /\ ServerInit /\ MainInit
    /\ net = [mongo |-> "up", portFree |-> TRUE]
    /\ pc = "start" /\ environment = <<>> /\ cfg = ZeroConfig
    /\ ret = NotReturned /\ previous = NotReturned
    /\ \E ms \in {Unset, SetTo(production)} :
          env = EnvOf(FieldNamed("Environment"), ms, ms, FALSE)
    /\ fs = [base |-> ObjectFile(Background), mode |-> ModeFiles(development, OtherFile("missing")),
             local |-> OtherFile("missing"), dotenv |-> DotenvOther("missing")]

SpecLogger == InitLogger /\ [][NextLogger]_vars

\* the scheduler runs every goroutine that can take a step, and sync's
\* mutexes hand the lock to a waiter that can get it again and again
SpecLoggerFair ==
    SpecLogger /\ \A p \in Goroutines : SF_vars(LoggerStep(p))

----------------------------------------------------------------------------
(* internal/database: NewMongoDBManager, IsConnected, Ping, Close.  What   *)
(* the driver answers is not decided by this code: every answer the        *)
(* network state allows can come back.                                     *)

MinPort == 1
MaxPort == 65535

\* validateDatabaseConfig: "nil" or the reason of the rejection
validateDatabaseConfig(c) ==
    IF c.Host = <<>> THEN "database host cannot be empty"
    ELSE IF c.Name = <<>> THEN "database name cannot be empty"
    ELSE IF c.IsAtlas
         THEN IF c.User = <<>>
              THEN "database user is required for MongoDB Atlas connections"
              ELSE IF c.Password = <<>>
              THEN "database password is required for MongoDB Atlas connections"
              ELSE "nil"
         ELSE IF c.Port < MinPort \/ c.Port > MaxPort
              THEN "database port must be between 1 and 65535"
              ELSE "nil"

\* faulty variant: a failed database-access check returns without
\* disconnecting the client
ConnectOutcomes_LeaksOnAccessFailure ==
    IF net.mongo = "up"
    THEN { [err |-> "failed to create MongoDB client", client |-> "none"],
           [err |-> "database access verification failed", client |-> "connected"],
           [err |-> "nil", client |-> "connected"] }
    ELSE { [err |-> "failed to create MongoDB client", client |-> "none"],
           [err |-> "failed to connect to MongoDB", client |-> "unconnected"],
           [err |-> "MongoDB server ping failed", client |-> "disconnected"] }

\* how far the connection gets: the stages of NewMongoDBManager after
\* validation, each of which can fail, and the client state it leaves
ConnectOutcomes ==
    IF net.mongo = "up"
    THEN { [err |-> "failed to create MongoDB client", client |-> "none"],
           [err |-> "database access verification failed", client |-> "disconnected"],
           [err |-> "nil", client |-> "connected"] }
    ELSE { [err |-> "failed to create MongoDB client", client |-> "none"],
           [err |-> "failed to connect to MongoDB", client |-> "unconnected"],
           [err |-> "MongoDB server ping failed", client |-> "disconnected"] }

\* faulty variant: the configuration is handed to the driver unvalidated
NewMongoDBManager_Unvalidated(c) ==
    /\ manager.nil
    /\ UNCHANGED inflight
    /\ \E o \in ConnectOutcomes :
          /\ client' = o.client
          /\ manager' = IF o.err = "nil"
                        THEN [nil |-> FALSE, isConnected |-> TRUE]
                        ELSE NoManager
          /\ dbcall' = Called("NewMongoDBManager", c, o.err, FALSE, dbcall.op)

\* NewMongoDBManager(cfg, logger): validation, then client creation,
\* Connect, Ping and ListCollectionNames; the manager exists only if all of
\* them succeed
NewMongoDBManager(c) ==
    /\ manager.nil
    /\ UNCHANGED inflight
    /\ IF validateDatabaseConfig(c) # "nil"
       THEN /\ dbcall' = Called("NewMongoDBManager", c,
                                "database configuration validation failed",
                                FALSE, dbcall.op)
            /\ client' = "none"
            /\ UNCHANGED manager
       ELSE \E o \in ConnectOutcomes :
               /\ client' = o.client
               /\ manager' = IF o.err = "nil"
                             THEN [nil |-> FALSE, isConnected |-> TRUE]
                             ELSE NoManager
               /\ dbcall' = Called("NewMongoDBManager", c, o.err, FALSE, dbcall.op)

\* m.IsConnected()
IsConnected ==
    /\ ~manager.nil
    /\ UNCHANGED inflight
    /\ dbcall' = Called("IsConnected", NoDatabase, "nil", manager.isConnected, dbcall.op)
    /\ UNCHANGED <<manager, client>>

\* the answers of client.Ping: a client that is not connected cannot be
\* pinged, a connected one answers or not
PingOutcomes ==
    IF client = "connected" /\ net.mongo = "up"
    THEN {"nil", "MongoDB ping failed"}
    ELSE {"MongoDB ping failed"}

\* faulty variant: a failed ping leaves the cached status as it was
Ping_StatusOnlyRaised ==
    /\ ~manager.nil
    /\ UNCHANGED inflight
    /\ \E err \in PingOutcomes :
          /\ manager' = [manager EXCEPT !.isConnected = @ \/ (err = "nil")]
          /\ dbcall' = Called("Ping", NoDatabase, err, FALSE, dbcall.op)
    /\ UNCHANGED client

\* m.Ping(ctx): isConnected follows the answer
Ping ==
    /\ ~manager.nil
    /\ UNCHANGED inflight
    /\ \E err \in PingOutcomes :
          /\ manager' = [manager EXCEPT !.isConnected = (err = "nil")]
          /\ dbcall' = Called("Ping", NoDatabase, err, FALSE, dbcall.op)
    /\ UNCHANGED client

\* the answers of client.Disconnect and the client state each leaves: the
\* driver closes the topology of a connected client, with or without an
\* error to report, and refuses a client that is not connected
DisconnectOutcomes ==
    IF client = "connected"
    THEN { [err |-> "nil", client |-> "disconnected"],
           [err |-> "MongoDB disconnection failed", client |-> "disconnected"] }
    ELSE { [err |-> "MongoDB disconnection failed", client |-> client] }

\* faulty variant: the status is cleared only when the disconnect succeeds
Close_ClearsOnSuccess ==
    /\ ~manager.nil
    /\ UNCHANGED inflight
    /\ \E o \in DisconnectOutcomes :
          /\ client' = o.client
          /\ manager' = [manager EXCEPT !.isConnected = @ /\ o.err # "nil"]
          /\ dbcall' = Called("Close", NoDatabase, o.err, FALSE, dbcall.op)

\* m.Close(): isConnected = false first, then client.Disconnect
Close ==
    /\ ~manager.nil
    /\ UNCHANGED inflight
    /\ \E o \in DisconnectOutcomes :
          /\ client' = o.client
          /\ manager' = [manager EXCEPT !.isConnected = FALSE]
          /\ dbcall' = Called("Close", NoDatabase, o.err, FALSE, dbcall.op)

\* everything the database package does not touch
outsideDatabase == <<configVars, loggerVars, serverVars, mainVars>>

\* the configurations a caller hands in: each field empty and non-empty,
\* the port at and around both ends of its range
DatabaseConfigs ==
    { Database(host, port, user, password, name, isAtlas) :
        host \in {<<>>, localhost}, port \in {-1, 0, 1, 27017, 65535, 65536},
        user \in {<<>>, qa}, password \in {<<>>, warn}, name \in {<<>>, test},
        isAtlas \in BOOLEAN }

CallNewMongoDBManager ==
    /\ \E c \in DatabaseConfigs : NewMongoDBManager(c)
    /\ UNCHANGED outsideDatabase

CallIsConnected == IsConnected /\ UNCHANGED outsideDatabase
CallPing        == Ping /\ UNCHANGED outsideDatabase
CallClose       == Close /\ UNCHANGED outsideDatabase

NextDatabase ==
    \/ CallNewMongoDBManager
    \/ CallIsConnected
    \/ CallPing
    \/ CallClose

\* the database package alone, MongoDB reachable or not
InitDatabase ==
    /\ LoggerInit /\ DatabaseInit /\ ServerInit /\ MainInit
    /\ \E up \in {"up", "down"} : net = [mongo |-> up, portFree |-> TRUE]
    /\ pc = "start" /\ environment = <<>> /\ cfg = ZeroConfig
    /\ ret = NotReturned /\ previous = NotReturned
    /\ env = EnvOf(FieldNamed("Environment"), Unset, Unset, FALSE)
    /\ fs = [base |-> ObjectFile(Background), mode |-> ModeFiles(development, OtherFile("missing")),
             local |-> OtherFile("missing"), dotenv |-> DotenvOther("missing")]

SpecDatabase == InitDatabase /\ [][NextDatabase]_vars

----------------------------------------------------------------------------
(* MongoDBManager used from several goroutines.  The struct holds no lock  *)
(* and its methods take none, so the statements of calls that run at the   *)
(* same time interleave: each step below is one statement of one call.     *)

\* the manager the goroutines share: created once, for a local MongoDB
CreateManager ==
    /\ NewMongoDBManager(Database(localhost, 27017, <<>>, <<>>, test, FALSE))
    /\ UNCHANGED outsideDatabase

\* a goroutine enters m.Ping(ctx)
PingBegin(p) ==
    /\ ~manager.nil
    /\ inflight[p].pc = "idle"
    /\ inflight' = [inflight EXCEPT ![p] = InCall("Ping", "client_ping", "nil")]
    /\ UNCHANGED <<manager, client, dbcall>>
    /\ UNCHANGED outsideDatabase

\* err := m.client.Ping(ctx, readpref.Primary())
PingClient(p) ==
    /\ inflight[p].op = "Ping" /\ inflight[p].pc = "client_ping"
    /\ \E err \in PingOutcomes :
          inflight' = [inflight EXCEPT ![p] = InCall("Ping", "store", err)]
    /\ UNCHANGED <<manager, client, dbcall>>
    /\ UNCHANGED outsideDatabase

\* m.isConnected = false and return the error, or m.isConnected = true and
\* return nil
PingStore(p) ==
    /\ inflight[p].op = "Ping" /\ inflight[p].pc = "store"
    /\ manager' = [manager EXCEPT !.isConnected = (inflight[p].err = "nil")]
    /\ inflight' = [inflight EXCEPT ![p].pc = "returned"]
    /\ UNCHANGED <<client, dbcall>>
    /\ UNCHANGED outsideDatabase

\* a goroutine enters m.Close()
CloseBegin(p) ==
    /\ ~manager.nil
    /\ inflight[p].pc = "idle"
    /\ inflight' = [inflight EXCEPT ![p] = InCall("Close", "store", "nil")]
    /\ UNCHANGED <<manager, client, dbcall>>
    /\ UNCHANGED outsideDatabase

\* m.isConnected = false
CloseStore(p) ==
    /\ inflight[p].op = "Close" /\ inflight[p].pc = "store"
    /\ manager' = [manager EXCEPT !.isConnected = FALSE]
    /\ inflight' = [inflight EXCEPT ![p].pc = "disconnect"]
    /\ UNCHANGED <<client, dbcall>>
    /\ UNCHANGED outsideDatabase

\* err := m.client.Disconnect(ctx) and return
CloseDisconnect(p) ==
    /\ inflight[p].op = "Close" /\ inflight[p].pc = "disconnect"
    /\ \E o \in DisconnectOutcomes :
          /\ client' = o.client
          /\ inflight' = [inflight EXCEPT ![p] = InCall("Close", "returned", o.err)]
    /\ UNCHANGED <<manager, dbcall>>
    /\ UNCHANGED outsideDatabase

\* the caller has taken the result and is free for its next call
Finish(p) ==
    /\ inflight[p].pc = "returned"
    /\ inflight' = [inflight EXCEPT ![p] = NotInCall]
    /\ UNCHANGED <<manager, client, dbcall>>
    /\ UNCHANGED outsideDatabase

NextConcurrent ==
    \/ CreateManager
    \/ \E p \in Goroutines :
          \/ PingBegin(p)
          \/ PingClient(p)
          \/ PingStore(p)
          \/ CloseBegin(p)
          \/ CloseStore(p)
          \/ CloseDisconnect(p)
          \/ Finish(p)

SpecConcurrent == InitDatabase /\ [][NextConcurrent]_vars

----------------------------------------------------------------------------
(* internal/server: NewServer, Start, the goroutine Start launches, and    *)
(* Shutdown.                                                               *)

\* NewServer(cfg, logger): the server exists, nothing listens yet
NewServer(config) ==
    /\ httpServer.nil
    /\ httpServer' = [nil |-> FALSE, config |-> config, listener |-> "none"]
    /\ UNCHANGED srvcall

\* s.Start(): launches the goroutine that runs ListenAndServe and returns
\* nil without waiting for it
Start ==
    /\ ~httpServer.nil
    /\ httpServer.listener = "none"
    /\ httpServer' = [httpServer EXCEPT !.listener = "starting"]
    /\ srvcall' = ServerCalled("Start", "nil")

\* the goroutine of Start: s.server.ListenAndServe() binds the address or
\* fails; a failure is logged there and goes nowhere else
ListenAndServe ==
    /\ httpServer.listener = "starting"
    /\ httpServer' = [httpServer EXCEPT
                         !.listener = IF net.portFree THEN "listening" ELSE "failed"]
    /\ UNCHANGED srvcall

\* s.Shutdown(ctx): http.Server.Shutdown closes the listener and waits for
\* the connections until the context expires
Shutdown ==
    /\ ~httpServer.nil
    /\ httpServer.listener # "closed"
    /\ httpServer' = [httpServer EXCEPT !.listener = "closed"]
    /\ \E err \in IF httpServer.listener = "listening"
                  THEN {"nil", "context deadline exceeded"} ELSE {"nil"} :
          srvcall' = ServerCalled("Shutdown", err)

\* everything the server package does not touch
outsideServer == <<configVars, loggerVars, databaseVars, mainVars>>

\* the configurations a caller hands in
ServerConfigs ==
    { Server(host, port, timeout, timeout, 15) :
        host \in {<<>>, localhost}, port \in {0, 80, 6910, 8080}, timeout \in {0, 30} }

CallNewServer ==
    /\ \E config \in ServerConfigs : NewServer(config)
    /\ UNCHANGED outsideServer

CallStart      == Start /\ UNCHANGED outsideServer
RunListener    == ListenAndServe /\ UNCHANGED outsideServer
CallShutdown   == Shutdown /\ UNCHANGED outsideServer

NextServer ==
    \/ CallNewServer
    \/ CallStart
    \/ RunListener
    \/ CallShutdown

\* the server package alone, the port free or taken
InitServer ==
    /\ LoggerInit /\ DatabaseInit /\ ServerInit /\ MainInit
    /\ \E free \in BOOLEAN : net = [mongo |-> "up", portFree |-> free]
    /\ pc = "start" /\ environment = <<>> /\ cfg = ZeroConfig
    /\ ret = NotReturned /\ previous = NotReturned
    /\ env = EnvOf(FieldNamed("Environment"), Unset, Unset, FALSE)
    /\ fs = [base |-> ObjectFile(Background), mode |-> ModeFiles(development, OtherFile("missing")),
             local |-> OtherFile("missing"), dotenv |-> DotenvOther("missing")]

SpecServer == InitServer /\ [][NextServer]_vars

----------------------------------------------------------------------------
(* cmd/server: main.  Its calls into the logger package are calls of the   *)
(* goroutine "main"; NewConfig runs between main's second and third        *)
(* statement; the listener goroutine is the one Start launches.            *)

\* cfg.Logger, cfg.Database, cfg.Server of a resolved config
LoggerOf(c) ==
    [Level |-> c["Logger.Level"].s, Format |-> c["Logger.Format"].s,
     Output |-> c["Logger.Output"].s, AddSource |-> c["Logger.AddSource"].b]

DatabaseOf(c) ==
    Database(c["Database.Host"].s, c["Database.Port"].n, c["Database.User"].s,
             c["Database.Password"].s, c["Database.Name"].s, c["Database.IsAtlas"].b)

ServerOf(c) ==
    Server(c["Server.Host"].s, c["Server.Port"].n, c["Server.ReadTimeout"].n,
           c["Server.WriteTimeout"].n, c["Server.ShutdownTimeout"].n)

\* main is between two calls of the logger package
MainIdle == g["main"].pc = "idle"

\* logger.InitializeBootstrapLogger()
MainBootstrap ==
    /\ mainPc = "start"
    /\ Call("main", "InitializeBootstrapLogger", NoArg)
    /\ mainPc' = "newconfig"
    /\ UNCHANGED <<configVars, databaseVars, serverVars, net, deferred>>

\* the statements of the logger call main is in
MainLoggerStep ==
    \/ Lock("main")
    \/ New("main")
    \/ SetInstance("main")
    \/ SetDefault("main")
    \/ Unlock("main")
    \/ RLock("main")
    \/ Check("main")

\* cfg, err := config.NewConfig(): the steps of NewConfig
MainNewConfig ==
    /\ mainPc = "newconfig"
    /\ MainIdle
    /\ Next

\* faulty variant: a failed NewConfig is logged and main goes on
MainConfigFailed_GoesOn ==
    /\ mainPc = "newconfig"
    /\ pc = "done"
    /\ ret.nil
    /\ mainPc' = "database"
    /\ UNCHANGED <<configVars, loggerVars, databaseVars, serverVars, net, deferred>>

\* if err != nil { ...; return }
MainConfigFailed ==
    /\ mainPc = "newconfig"
    /\ pc = "done"
    /\ ret.nil
    /\ mainPc' = "exited"
    /\ UNCHANGED <<configVars, loggerVars, databaseVars, serverVars, net, deferred>>

\* logger.ConfigureLogger(cfg.Logger)
MainConfigureLogger ==
    /\ mainPc = "newconfig"
    /\ pc = "done"
    /\ ~ret.nil
    /\ Call("main", "ConfigureLogger", LoggerOf(ret.cfg))
    /\ mainPc' = "database"
    /\ UNCHANGED <<configVars, databaseVars, serverVars, net, deferred>>

\* logger.GetLogger(), the argument of NewMongoDBManager and of NewServer
MainGetLogger ==
    /\ mainPc \in {"database", "server"}
    /\ MainIdle
    /\ Call("main", "GetLogger", NoArg)
    /\ mainPc' = IF mainPc = "database" THEN "new_manager" ELSE "new_server"
    /\ UNCHANGED <<configVars, databaseVars, serverVars, net, deferred>>

\* dbManager, err := database.NewMongoDBManager(cfg.Database, ...); on an
\* error main returns, else it defers dbManager.Close()
MainNewMongoDBManager ==
    /\ mainPc = "new_manager"
    /\ MainIdle
    /\ NewMongoDBManager(DatabaseOf(ret.cfg))
    /\ IF dbcall'.err # "nil"
       THEN mainPc' = "exited" /\ UNCHANGED deferred
       ELSE mainPc' = "server" /\ deferred' = <<"Close">> \o deferred
    /\ UNCHANGED <<configVars, loggerVars, serverVars, net>>

\* httpServer := server.NewServer(cfg.Server, ...)
MainNewServer ==
    /\ mainPc = "new_server"
    /\ MainIdle
    /\ NewServer(ServerOf(ret.cfg))
    /\ mainPc' = "start_server"
    /\ UNCHANGED <<configVars, loggerVars, databaseVars, net, deferred>>

\* if err := httpServer.Start(); err != nil { ...; return }
MainStart ==
    /\ mainPc = "start_server"
    /\ Start
    /\ mainPc' = IF srvcall'.err # "nil" THEN "return" ELSE "wait"
    /\ UNCHANGED <<configVars, loggerVars, databaseVars, net, deferred>>

\* <-quit: SIGINT or SIGTERM arrives
MainSignal ==
    /\ mainPc = "wait"
    /\ mainPc' = "shutdown"
    /\ UNCHANGED <<configVars, loggerVars, databaseVars, serverVars, net, deferred>>

\* faulty variant: a shutdown error ends the process at once, as os.Exit
\* would, without running the deferred calls
MainShutdown_ExitsOnError ==
    /\ mainPc = "shutdown"
    /\ Shutdown
    /\ mainPc' = IF srvcall'.err # "nil" THEN "exited" ELSE "return"
    /\ UNCHANGED <<configVars, loggerVars, databaseVars, net, deferred>>

\* httpServer.Shutdown(ctx); main returns after it with or without error
MainShutdown ==
    /\ mainPc = "shutdown"
    /\ Shutdown
    /\ mainPc' = "return"
    /\ UNCHANGED <<configVars, loggerVars, databaseVars, net, deferred>>

\* the deferred dbManager.Close() runs as main returns
MainReturn ==
    /\ mainPc = "return"
    /\ IF deferred = <<>>
       THEN mainPc' = "exited" /\ UNCHANGED <<databaseVars, deferred>>
       ELSE Close /\ deferred' = Tail(deferred) /\ UNCHANGED mainPc
    /\ UNCHANGED <<configVars, loggerVars, serverVars, net>>

NextMain ==
    \/ MainBootstrap
    \/ MainLoggerStep
    \/ MainNewConfig
    \/ MainConfigFailed
    \/ MainConfigureLogger
    \/ MainGetLogger
    \/ MainNewMongoDBManager
    \/ MainNewServer
    \/ MainStart
    \/ RunListener
    \/ MainSignal
    \/ MainShutdown
    \/ MainReturn

database == <<"d","a","t","a","b","a","s","e">>

\* a base file with which the database configuration is valid
Deployable ==
    [Background EXCEPT
        !["database.host"] = JStr(localhost),
        !["database.port"] = JNum(27017),
        !["database.name"] = JStr(database)]

\* a process start: base file absent, incomplete or complete, with or
\* without a .env file, MongoDB reachable or not, the port free or taken
InitMain ==
    /\ LoggerInit /\ DatabaseInit /\ ServerInit /\ MainInit
    /\ pc = "start" /\ environment = <<>> /\ cfg = ZeroConfig
    /\ ret = NotReturned /\ previous = NotReturned
    /\ \E up \in {"up", "down"}, free \in BOOLEAN :
          net = [mongo |-> up, portFree |-> free]
    /\ \E b \in {OtherFile("missing"), ObjectFile(Background), ObjectFile(Deployable)},
          ms \in {Unset, SetTo(production)},
          d \in {DotenvOther("missing"),
                 DotenvOf(FieldNamed("Logger.Level"), SetTo(error))} :
          /\ env = EnvOf(FieldNamed("Environment"), ms, ms, FALSE)
          /\ fs = [base |-> b, mode |-> ModeFiles(development, OtherFile("missing")),
                   local |-> OtherFile("missing"), dotenv |-> d]

SpecMain == InitMain /\ [][NextMain]_vars

----------------------------------------------------------------------------
(* Vocabulary of the properties *)

\* NewConfig has returned a config and a nil error
Succeeded == pc = "done" /\ ~ret.nil /\ ret.err = "nil"

\* what the .env file says about a variable (nothing when it cannot be read)
DotenvSetting(name) ==
    IF fs.dotenv.kind = "map" THEN fs.dotenv.map[name] ELSE Unset

\* the text converts to the kind of the field
Converts(text, kind) ==
    \/ kind = "string"
    \/ kind = "bool" /\ ParseBool(text).ok
    \/ kind = "int"  /\ Atoi(text).ok

\* the field value equals the setting `text`, read as the field's type
EqualsSetting(value, text, kind) ==
    \/ kind = "string" /\ value = StrV(text)
    \/ kind = "bool"   /\ ParseBool(text).ok /\ value = BoolV(ParseBool(text).b)
    \/ kind = "int"    /\ Atoi(text).ok      /\ value = IntV(Atoi(text).n)

----------------------------------------------------------------------------
(* C1: precedence of the process environment *)

\* C1 as stated: for every scalar field bound to a variable E, if E is set
\* in the process environment when NewConfig runs, the returned field equals
\* that setting, whatever the files and the .env file say.
C1_EnvAlwaysWins ==
    Succeeded =>
        \A f \in ScalarFields :
            env[f.env].set => EqualsSetting(ret.cfg[f.name], env[f.env].v, f.kind)

\* C1 as amended: if E is set to a non-empty text that converts to the
\* field's type, the returned field equals the converted setting, whatever
\* the files and the .env file say.
C1_EnvWinsWhenConvertible ==
    Succeeded =>
        \A f \in ScalarFields :
            (env[f.env].set /\ env[f.env].v # <<>> /\ Converts(env[f.env].v, f.kind))
                => EqualsSetting(ret.cfg[f.name], env[f.env].v, f.kind)

\* SERVER_PORT=1 in the environment beats SERVER_PORT=0 of .env and port 0
\* of config.local.json
C1_Witness ==
    /\ Succeeded
    /\ env["SERVER_PORT"] = SetTo(<<"1">>)
    /\ DotenvSetting("SERVER_PORT") = SetTo(<<"0">>)
    /\ fs.local.kind = "object" /\ fs.local.doc["server.port"] = JNum(0)
    /\ ret.cfg["Server.Port"] = IntV(1)

----------------------------------------------------------------------------
(* C2: the fallback chain *)

\* C2 as stated: going through OverrideFromEnv, a field whose variable is
\* unset in the process environment but present in the .env mapping ends
\* equal to the .env value, and a field whose variable is in neither is
\* left as the files merged it; NewConfig returns that config.
C2_DotenvThenFiles ==
    [][ /\ pc = "override" =>
            \A f \in ScalarFields :
                /\ (~env[f.env].set /\ DotenvSetting(f.env).set)
                      => EqualsSetting(cfg'[f.name], DotenvSetting(f.env).v, f.kind)
                /\ (~env[f.env].set /\ ~DotenvSetting(f.env).set)
                      => cfg'[f.name] = cfg[f.name]
        /\ pc = "return" => ret' = Returned(cfg)
      ]_vars

\* C2 as amended: the .env value is applied when it is non-empty and
\* converts to the field's type; the rest as stated.
C2_DotenvWhenConvertible ==
    [][ /\ pc = "override" =>
            \A f \in ScalarFields :
                /\ ( /\ ~env[f.env].set
                     /\ DotenvSetting(f.env).set
                     /\ DotenvSetting(f.env).v # <<>>
                     /\ Converts(DotenvSetting(f.env).v, f.kind) )
                      => EqualsSetting(cfg'[f.name], DotenvSetting(f.env).v, f.kind)
                /\ (~env[f.env].set /\ ~DotenvSetting(f.env).set)
                      => cfg'[f.name] = cfg[f.name]
        /\ pc = "return" => ret' = Returned(cfg)
      ]_vars

\* SLOG_ADD_SOURCE=0 from .env turns off what config.json turned on, while
\* the server port, in neither source, stays as config.json gave it
C2_Witness ==
    /\ Succeeded
    /\ ~env["SLOG_ADD_SOURCE"].set
    /\ DotenvSetting("SLOG_ADD_SOURCE") = SetTo(<<"0">>)
    /\ fs.base.kind = "object" /\ fs.base.doc["logger.add_source"] = JBool(TRUE)
    /\ ret.cfg["Logger.AddSource"] = BoolV(FALSE)
    /\ ~env["SERVER_PORT"].set /\ ~DotenvSetting("SERVER_PORT").set
    /\ ret.cfg["Server.Port"] = IntV(8080)

----------------------------------------------------------------------------
(* C3: precedence among the structured files *)

\* the mode file NewConfig reads: configs/config.<environment>.json
ModeFile == fs.mode[environment]

\* the document of the file has the field's key (inside its section)
Mentions(file, f) ==
    /\ file.kind = "object"
    /\ file.doc[f.jpath].t # "absent"
    /\ f.parent # "" => file.doc[f.parent].t = "object"

\* the document of the file gives the field a value of the field's type
Gives(file, f) == Mentions(file, f) /\ Fits(file.doc[f.jpath], f.kind)

\* the field holds the value the file's document gives it
HoldsValueOf(value, file, f) ==
    Fits(file.doc[f.jpath], f.kind) /\ value = Decoded(file.doc[f.jpath])

\* the field holds what the key of the file's document says, a null read as
\* the empty value; nothing is asked when the value is of another type
\* (the load of such a file reports an error)
HoldsMentionOf(value, file, f) ==
    CASE file.doc[f.jpath].t = "null"     -> value = ZeroValue(f.kind)
      [] Fits(file.doc[f.jpath], f.kind)  -> value = Decoded(file.doc[f.jpath])
      [] OTHER                            -> TRUE

NoOverride(f) == ~env[f.env].set /\ ~DotenvSetting(f.env).set

\* C3 as stated: a field with no environment or .env override has the value
\* of config.local.json if that file mentions it, otherwise of
\* config.<mode>.json if that file mentions it, otherwise of config.json.
C3_LastMentionWins ==
    Succeeded =>
        \A f \in ScalarFields :
            NoOverride(f) =>
                IF Mentions(fs.local, f) THEN HoldsMentionOf(ret.cfg[f.name], fs.local, f)
                ELSE IF Mentions(ModeFile, f) THEN HoldsMentionOf(ret.cfg[f.name], ModeFile, f)
                ELSE Mentions(fs.base, f) => HoldsMentionOf(ret.cfg[f.name], fs.base, f)

\* C3 as amended: a file counts when it gives the field a non-null value of
\* the field's type; a key holding null or a value of another type leaves
\* the field to the earlier layers.
C3_LastGivenValueWins ==
    Succeeded =>
        \A f \in ScalarFields :
            NoOverride(f) =>
                IF Gives(fs.local, f) THEN HoldsValueOf(ret.cfg[f.name], fs.local, f)
                ELSE IF Gives(ModeFile, f) THEN HoldsValueOf(ret.cfg[f.name], ModeFile, f)
                ELSE Gives(fs.base, f) => HoldsValueOf(ret.cfg[f.name], fs.base, f)

\* config.json says info, config.production.json says warn,
\* config.local.json says "": the level is ""
C3_Witness ==
    /\ Succeeded
    /\ environment = production
    /\ NoOverride(FieldNamed("Logger.Level"))
    /\ fs.base.kind = "object" /\ fs.base.doc["logger.level"] = JStr(<<"i","n","f","o">>)
    /\ ModeFile.kind = "object" /\ ModeFile.doc["logger.level"] = JStr(warn)
    /\ fs.local.kind = "object" /\ fs.local.doc["logger.level"] = JStr(<<>>)
    /\ ret.cfg["Logger.Level"] = StrV(<<>>)

----------------------------------------------------------------------------
(* C4: a load keeps what the file does not mention *)

\* the file the load at this position reads
FileLoadedAt(position) ==
    CASE position = "base"        -> fs.base
      [] position = "environment" -> ModeFile
      [] position = "local"       -> fs.local

\* C4: every call of LoadFromJSONFile leaves each field whose key is not in
\* the document (at the top level or inside a section the document only
\* partly specifies) with the value it held before the call.
C4_AbsentKeysPreserved ==
    [][ (pc \in {"base", "environment", "local"}) =>
            \A f \in ScalarFields :
                ~Mentions(FileLoadedAt(pc), f) => cfg'[f.name] = cfg[f.name]
      ]_vars

\* config.development.json has logger.level only: add_source, host and
\* port of config.json are still there after it is loaded
C4_Witness ==
    /\ pc = "local"
    /\ ModeFile.kind = "object"
    /\ ModeFile.doc["logger.level"] = JStr(warn)
    /\ ModeFile.doc["logger.add_source"] = JAbsent
    /\ ModeFile.doc["server"] = JAbsent
    /\ cfg["Logger.Level"] = StrV(warn)
    /\ cfg["Logger.AddSource"] = BoolV(TRUE)
    /\ cfg["Server.Port"] = IntV(8080)
    /\ cfg["Server.Host"] = StrV(localhost)

----------------------------------------------------------------------------
(* C5: compiled-in defaults *)

\* no file NewConfig reads has the field's key
InNoFile(f) ==
    ~Mentions(fs.base, f) /\ ~Mentions(ModeFile, f) /\ ~Mentions(fs.local, f)

\* C5: a field that no file, .env entry or environment variable mentions
\* has its compiled-in default in the config NewConfig returns.
C5_UnmentionedFieldsHaveDefaults ==
    Succeeded =>
        \A f \in ScalarFields :
            (InNoFile(f) /\ NoOverride(f)) => ret.cfg[f.name] = NewDefaultConfig[f.name]

----------------------------------------------------------------------------
(* C6: the Environment field *)

\* C6: the returned Environment is one of development, test, staging,
\* production, and it is development when ENVIRONMENT is absent or holds
\* any other value.
C6_EnvironmentIsValid ==
    Succeeded =>
        /\ ret.cfg["Environment"].s \in ValidEnvironments
        /\ (~env["ENVIRONMENT"].set \/ env["ENVIRONMENT"].v \notin ValidEnvironments)
              => ret.cfg["Environment"] = StrV(development)

----------------------------------------------------------------------------
(* C7, C8: which failures NewConfig returns *)

\* the document has a key whose value is neither null nor of the type of
\* the field (for a section: not an object)
Mistyped(file) ==
    /\ file.kind = "object"
    /\ \E f \in AllFields :
          /\ Mentions(file, f)
          /\ file.doc[f.jpath].t # "null"
          /\ IF f.kind = "struct" THEN file.doc[f.jpath].t # "object"
                                  ELSE ~Fits(file.doc[f.jpath], f.kind)

\* the file is missing, unreadable or malformed
Unusable(file) ==
    file.kind \in {"missing", "denied", "syntax", "nonobject"} \/ Mistyped(file)

\* C7: with config.json missing, unreadable or malformed NewConfig never
\* gets to a later source and returns a nil config with a non-nil error.
C7_BaseFailureIsFatal ==
    Unusable(fs.base) =>
        /\ pc \notin {"environment", "local", "override", "return"}
        /\ pc = "done" => (ret.nil /\ ret.err \notin {"nil", "pending"})

\* config.json is missing while a mode file, .env and SLOG_LEVEL are there
C7_Witness ==
    /\ pc = "done"
    /\ fs.base.kind = "missing"
    /\ ModeFile.kind = "object"
    /\ fs.dotenv.kind = "map"
    /\ env["SLOG_LEVEL"].set
    /\ ret.nil /\ ret.err = "failed to load base configuration"

----------------------------------------------------------------------------
(* C9: a setting that cannot be converted *)

\* the text OverrideFromEnv takes for the field: the process environment's
\* when non-empty, else the .env file's; <<>> when there is none
OverrideText(f) ==
    IF env[f.env].set /\ env[f.env].v # <<>> THEN env[f.env].v
    ELSE IF DotenvSetting(f.env).set THEN DotenvSetting(f.env).v
    ELSE <<>>

\* the text taken for the field is not a value of the field's type
FailsConversion(f) ==
    /\ OverrideText(f) # <<>>
    /\ ~(f.kind # "struct" /\ Converts(OverrideText(f), f.kind))

\* C9: when the text taken for a field fails conversion, the override step
\* leaves that field as the earlier sources set it, gives every other field
\* its own override or leaves it alone, and NewConfig goes on to return the
\* config with a nil error.
C9_FailedCoercionIsSkipped ==
    [][ (\E f \in AllFields : FailsConversion(f)) =>
          /\ (pc = "override") =>
                /\ pc' = "return"
                /\ \A f \in ScalarFields :
                      IF OverrideText(f) # <<>> /\ Converts(OverrideText(f), f.kind)
                      THEN EqualsSetting(cfg'[f.name], OverrideText(f), f.kind)
                      ELSE cfg'[f.name] = cfg[f.name]
          /\ (pc = "return") => ret' = Returned(cfg) ]_vars

\* SERVER_PORT=no fails Atoi: the port of config.json stays, while
\* SERVER_HOST of the same environment is applied
C9_Witness ==
    /\ Succeeded
    /\ env["SERVER_PORT"].set /\ ~Atoi(env["SERVER_PORT"].v).ok
    /\ ret.cfg["Server.Port"] = IntV(8080)
    /\ env["SERVER_HOST"] = SetTo(qa)
    /\ ret.cfg["Server.Host"] = StrV(qa)

----------------------------------------------------------------------------
(* C10: repeated resolution *)

\* C10: with environment and files unchanged a second NewConfig returns
\* what the first returned, and OverrideFromEnv applied to the config it
\* has just overridden changes no field.
C10_Idempotent ==
    /\ (pc = "done" /\ previous # NotReturned) => ret = previous
    /\ (pc = "return") => OverrideFromEnv(fs.dotenv, cfg).cfg = cfg

\* the second call has returned a config in which SERVER_PORT=+2 is applied
C10_Witness ==
    /\ pc = "done"
    /\ previous # NotReturned
    /\ ~ret.nil
    /\ env["SERVER_PORT"].set /\ Atoi(env["SERVER_PORT"].v).ok
    /\ ret.cfg["Server.Port"] = IntV(Atoi(env["SERVER_PORT"].v).n)
    /\ ret.cfg["Server.Port"] # IntV(8080)

----------------------------------------------------------------------------
(* C11: secrets and the log *)

secretA == <<"s","3","c","r","3","t">>
secretB == <<"h","u","n","t","e","r","2">>

\* the .env file with DATABASE_PASSWORD=p and nothing else changed
WithPassword(dotenvFile, p) ==
    [kind |-> "map",
     map  |-> [godotenvRead(dotenvFile).map EXCEPT !["DATABASE_PASSWORD"] = SetTo(p)]]

\* what the bootstrap logger prints for the override step and for main's
\* "Configuration loaded" line, when .env supplies password p
StartupOutput(p) ==
    << HandlerOutput(OverrideFromEnvLog(WithPassword(fs.dotenv, p)), BootstrapLevel),
       HandlerOutput(<< ConfigLoadedLog(OverrideFromEnv(WithPassword(fs.dotenv, p), cfg).cfg) >>,
                     BootstrapLevel) >>

\* C11: two runs that differ only in the value supplied for
\* DATABASE_PASSWORD print the same log: the override step and the startup
\* line never show the value of the secret.
C11_SecretNeverLogged ==
    (pc = "override") => StartupOutput(secretA) = StartupOutput(secretB)

----------------------------------------------------------------------------
(* C12: no .env file *)

\* C12: when the .env file is missing or cannot be read, the override step
\* reports no error and goes on to return, and every field whose variable
\* holds a convertible non-empty text in the process environment gets that
\* setting, the other fields staying as they were.
C12_MissingDotenvIsNoError ==
    [][ (pc = "override" /\ fs.dotenv.kind \in {"missing", "denied"}) =>
          /\ godotenvRead(fs.dotenv).map = EmptyMap
          /\ OverrideFromEnv(fs.dotenv, cfg).err = "nil"
          /\ pc' = "return"
          /\ \A f \in ScalarFields :
                IF Getenv(f.env) # <<>> /\ Converts(Getenv(f.env), f.kind)
                THEN EqualsSetting(cfg'[f.name], Getenv(f.env), f.kind)
                ELSE cfg'[f.name] = cfg[f.name] ]_vars

\* the .env file cannot be read, and SERVER_PORT and SERVER_HOST of the
\* process environment are in the returned config
C12_Witness ==
    /\ Succeeded
    /\ fs.dotenv.kind = "denied"
    /\ env["SERVER_PORT"].set /\ Atoi(env["SERVER_PORT"].v).ok
    /\ ret.cfg["Server.Port"] = IntV(Atoi(env["SERVER_PORT"].v).n)
    /\ env["SERVER_HOST"] = SetTo(qa)
    /\ ret.cfg["Server.Host"] = StrV(qa)

----------------------------------------------------------------------------
(* C13, C14: the logger singleton *)

\* C13: a call of GetLogger always returns, and what it returns is not nil.
C13_GetLoggerReturns ==
    \A p \in Goroutines :
        (g[p].op = "GetLogger") ~> (g[p].pc = "idle" /\ g[p].result # NilLogger)

\* C14: whenever no call is between its Lock and Unlock, instance is the
\* logger of the most recent InitializeBootstrapLogger or ConfigureLogger
\* and so is the slog default; a GetLogger call that returns hands out
\* exactly that logger.
C14_Singleton ==
    [][ /\ (mu'.writer = "" /\ created' > 0) =>
              /\ instance'.id = created'
              /\ slogDefault' = instance'
        /\ \A p \in Goroutines :
              (g[p].op = "GetLogger" /\ g'[p].pc = "idle") =>
                  /\ g'[p].result = instance
                  /\ instance.id = created
                  /\ slogDefault = instance ]_vars

\* after InitializeBootstrapLogger and then ConfigureLogger, a GetLogger
\* call has returned the second logger, which is also the slog default
C14_Witness ==
    \E p \in Goroutines :
        /\ g[p].pc = "idle"
        /\ g[p].result.id = 2
        /\ g[p].result.handler # "text"
        /\ created = 2
        /\ slogDefault = g[p].result
        /\ instance = g[p].result

----------------------------------------------------------------------------
(* C15, C16: the MongoDB manager *)

\* the configurations C15 lists as invalid
Invalid(c) ==
    \/ c.Host = <<>>
    \/ c.Name = <<>>
    \/ ~c.IsAtlas /\ (c.Port < 1 \/ c.Port > 65535)
    \/ c.IsAtlas /\ (c.User = <<>> \/ c.Password = <<>>)

\* C15: NewMongoDBManager answers an invalid configuration with a nil
\* manager and an error, without having touched the driver; any other
\* configuration, whatever its Atlas port or its non-Atlas user and
\* password, passes validation.
C15_InvalidConfigRejected ==
    (dbcall.op = "NewMongoDBManager") =>
        IF Invalid(dbcall.arg)
        THEN /\ manager.nil
             /\ dbcall.err = "database configuration validation failed"
             /\ client = "none"
        ELSE dbcall.err # "database configuration validation failed"

\* a non-Atlas configuration with port 65536 has been rejected before any
\* connection attempt
C15_Witness ==
    /\ dbcall.op = "NewMongoDBManager"
    /\ ~dbcall.arg.IsAtlas /\ dbcall.arg.Port = 65536
    /\ dbcall.arg.Host # <<>> /\ dbcall.arg.Name # <<>>
    /\ dbcall.err = "database configuration validation failed"
    /\ manager.nil /\ client = "none"

\* C16: a manager that NewMongoDBManager has just handed out reports
\* IsConnected true, and IsConnected called right after Close reports
\* false, whatever the disconnect answered.
C16_ConnectedUntilClosed ==
    /\ (dbcall.op = "NewMongoDBManager" /\ dbcall.err = "nil") =>
          (~manager.nil /\ manager.isConnected)
    /\ (dbcall.op = "Close") => ~manager.isConnected
    /\ (dbcall.op = "IsConnected") =>
          /\ dbcall.value = manager.isConnected
          /\ dbcall.prev = "NewMongoDBManager" => dbcall.value
          /\ dbcall.prev = "Close" => ~dbcall.value

\* IsConnected has answered false after a Close of the connected manager
C16_Witness ==
    /\ dbcall.op = "IsConnected"
    /\ dbcall.prev = "Close"
    /\ ~dbcall.value
    /\ ~manager.nil
    /\ client = "disconnected"

----------------------------------------------------------------------------
(* C17: what Start returns *)

\* C17: when the address cannot be bound, the Start call that launched the
\* server has returned a non-nil error.
C17_StartReportsFailure ==
    (httpServer.listener = "failed" /\ srvcall.op = "Start") => srvcall.err # "nil"

----------------------------------------------------------------------------
(* C18: configuration before everything else *)

\* the database package or the server package has been entered
SubsystemTouched ==
    \/ dbcall.op # "none" \/ ~manager.nil \/ client # "none"
    \/ srvcall.op # "none" \/ ~httpServer.nil

\* C18: main enters the database and the server package only after its
\* one NewConfig call has returned a config and ConfigureLogger has
\* installed a logger made from that config; after a failed NewConfig there
\* is never a client, a manager, a server or a listener.
C18_ConfigBeforeSubsystems ==
    /\ previous = NotReturned
    /\ SubsystemTouched =>
          /\ Succeeded
          /\ created = 2
          /\ instance = Logger(2, LevelOf(ret.cfg["Logger.Level"].s),
                               HandlerOf(ret.cfg["Logger.Format"].s),
                               ret.cfg["Logger.AddSource"].b,
                               WriterOf(ret.cfg["Logger.Format"].s))
          /\ slogDefault = instance
    /\ (pc = "done" /\ ret.nil) => ~SubsystemTouched

\* the server listens and the manager is connected, after NewConfig has
\* returned a config with the log level error of the .env file
C18_Witness ==
    /\ httpServer.listener = "listening"
    /\ ~manager.nil /\ manager.isConnected
    /\ Succeeded
    /\ instance.level = "ERROR"

----------------------------------------------------------------------------
(* C19: the empty string *)

\* C19: at the override step, for every bound field: with the variable set
\* to the empty string in the process environment and to a non-empty text
\* in .env, the .env text is the one taken (and stored when it converts);
\* with the variable empty or absent in both, the field is left as it was;
\* no string field is ever changed to the empty string.
C19_EmptyIsUnset ==
    [][ (pc = "override") =>
          \A f \in ScalarFields :
              LET e == env[f.env]
                  d == DotenvSetting(f.env)
              IN  /\ (e.set /\ e.v = <<>> /\ d.set /\ d.v # <<>>) =>
                        /\ OverrideText(f) = d.v
                        /\ IF Converts(d.v, f.kind)
                           THEN EqualsSetting(cfg'[f.name], d.v, f.kind)
                           ELSE cfg'[f.name] = cfg[f.name]
                  /\ ((~e.set \/ e.v = <<>>) /\ (~d.set \/ d.v = <<>>)) =>
                        cfg'[f.name] = cfg[f.name]
                  /\ (f.kind = "string" /\ cfg'[f.name] # cfg[f.name]) =>
                        cfg'[f.name].s # <<>> ]_vars

\* SLOG_LEVEL is set to "" in the process environment and to a text in
\* .env, and the returned level is the text of .env
C19_Witness ==
    /\ Succeeded
    /\ env["SLOG_LEVEL"] = SetTo(<<>>)
    /\ DotenvSetting("SLOG_LEVEL").set
    /\ DotenvSetting("SLOG_LEVEL").v # <<>>
    /\ ret.cfg["Logger.Level"] = StrV(DotenvSetting("SLOG_LEVEL").v)

----------------------------------------------------------------------------
(* C20: the walk enters every section *)

\* the schema with the binding names of the sections removed
RECURSIVE WithoutSectionTags(_)
WithoutSectionTags(structType) ==
    [i \in 1..Len(structType) |->
        IF structType[i].kind = "struct"
        THEN [structType[i] EXCEPT !.env = "",
                                   !.fields = WithoutSectionTags(structType[i].fields)]
        ELSE structType[i]]

\* how often the walk comes to the field: the records that open its
\* handling
Visits(f) ==
    LET log == OverrideFromEnvLog(fs.dotenv)
    IN  Cardinality({i \in 1..Len(log) :
            /\ log[i].field = f.name
            /\ log[i].msg \in {"No environment override found for field",
                               "Applying environment variable override"}})

\* C20: one OverrideFromEnv call comes to every bound scalar field of every
\* section exactly once and gives it its own override, whether or not the
\* variable named by the section's binding is set, and it would do the same
\* if the sections had no binding names.
C20_EverySectionEntered ==
    [][ (pc = "override") =>
          /\ \A f \in ScalarFields :
                /\ Visits(f) = 1
                /\ IF OverrideText(f) # <<>> /\ Converts(OverrideText(f), f.kind)
                   THEN EqualsSetting(cfg'[f.name], OverrideText(f), f.kind)
                   ELSE cfg'[f.name] = cfg[f.name]
          /\ cfg' = processStruct(cfg, godotenvRead(fs.dotenv).map,
                                  WithoutSectionTags(ConfigType), "", 1) ]_vars

\* SERVER is set in the process environment, and SERVER_HOST and
\* SERVER_PORT have been applied all the same
C20_Witness ==
    /\ Succeeded
    /\ env["SERVER"].set /\ env["SERVER"].v # <<>>
    /\ env["SERVER_HOST"] = SetTo(qa)
    /\ ret.cfg["Server.Host"] = StrV(qa)
    /\ env["SERVER_PORT"].set /\ Atoi(env["SERVER_PORT"].v).ok
    /\ ret.cfg["Server.Port"] = IntV(Atoi(env["SERVER_PORT"].v).n)

----------------------------------------------------------------------------
(* C21: a key with an empty or zero value *)

\* the document of the file gives the field "" / 0 / false
GivesZero(file, f) ==
    Gives(file, f) /\ Decoded(file.doc[f.jpath]) = ZeroValue(f.kind)

\* C21: loading a later file (config.<mode>.json, config.local.json) whose
\* document has the field's key with the value "", 0 or false leaves the
\* field empty/zero, whatever value the earlier files gave it; with no
\* later file and no override on top, that is the value NewConfig returns.
C21_ZeroValueOverwrites ==
    [][ /\ (pc \in {"environment", "local"}) =>
              \A f \in ScalarFields :
                  GivesZero(FileLoadedAt(pc), f) => cfg'[f.name] = ZeroValue(f.kind)
        /\ (pc = "return") =>
              \A f \in ScalarFields :
                  (GivesZero(fs.local, f) /\ NoOverride(f))
                      => ret'.cfg[f.name] = ZeroValue(f.kind)
      ]_vars

\* config.json has port 8080 and add_source true; config.local.json says
\* "port": 0 and the returned port is 0
C21_Witness ==
    /\ Succeeded
    /\ fs.base.kind = "object" /\ fs.base.doc["server.port"] = JNum(8080)
    /\ fs.local.kind = "object" /\ fs.local.doc["server.port"] = JNum(0)
    /\ NoOverride(FieldNamed("Server.Port"))
    /\ ret.cfg["Server.Port"] = IntV(0)

----------------------------------------------------------------------------
(* C22: the texts a boolean field takes *)

UpperOf(ch) ==
    CASE ch = "a" -> "A" [] ch = "e" -> "E" [] ch = "f" -> "F" [] ch = "l" -> "L"
      [] ch = "r" -> "R" [] ch = "s" -> "S" [] ch = "t" -> "T" [] ch = "u" -> "U"
      [] OTHER -> ch

\* the lower-case form, its upper-case variant and its capitalised variant
CaseVariants(str) ==
    { str,
      [i \in 1..Len(str) |-> UpperOf(str[i])],
      [i \in 1..Len(str) |-> IF i = 1 THEN UpperOf(str[i]) ELSE str[i]] }

ConventionalTrue ==
    UNION {CaseVariants(s) : s \in {<<"t","r","u","e">>, <<"1">>, <<"t">>}}
ConventionalFalse ==
    UNION {CaseVariants(s) : s \in {<<"f","a","l","s","e">>, <<"0">>, <<"f">>}}

C22_WitnessRejected ==
    /\ Succeeded
    /\ OverrideText(FieldNamed("Logger.AddSource")) = <<"t","R","u","E">>
    /\ ret.cfg["Logger.AddSource"] = BoolV(FALSE)

----------------------------------------------------------------------------
(* C23: where the configured logger writes *)

\* the destination the Output setting names
Destination(output) ==
    CASE output = stdout -> "os.Stdout"
      [] output = stderr -> "os.Stderr"
      [] OTHER           -> "file"

\* C23: the logger ConfigureLogger creates writes to the destination named
\* by the Output setting of its argument: standard output for stdout,
\* standard error for stderr, the file for a file path.
C23_OutputIsHonoured ==
    \A p \in Goroutines :
        (g[p].op = "ConfigureLogger" /\ g[p].logger # NilLogger)
            => g[p].logger.writer = Destination(g[p].arg.Output)

----------------------------------------------------------------------------
(* C24: Ping and the cached status *)

\* C24: after every Ping the cached status is the outcome of that ping
\* (true after nil, false after an error), and a Ping issued after Close,
\* directly or after further calls, returns an error and leaves the status
\* false.
C24_PingSetsStatus ==
    [][ (dbcall'.op = "Ping") =>
          /\ manager'.isConnected = (dbcall'.err = "nil")
          /\ (dbcall.op = "Close" \/ client # "connected") =>
                (dbcall'.err # "nil" /\ ~manager'.isConnected)
      ]_vars

\* a Ping of the fresh manager failed and the next one succeeded: the
\* status is true again
C24_WitnessRecovered ==
    /\ dbcall.op = "Ping" /\ dbcall.prev = "Ping"
    /\ dbcall.err = "nil"
    /\ manager.isConnected

\* Close returned nil, the Ping after it failed, IsConnected stays false
C24_Witness ==
    /\ dbcall.op = "Ping" /\ dbcall.prev = "Close"
    /\ client = "disconnected"
    /\ dbcall.err = "MongoDB ping failed"
    /\ ~manager.nil /\ ~manager.isConnected

----------------------------------------------------------------------------
(* C25: a failed NewMongoDBManager *)

\* C25: whenever NewMongoDBManager has returned an error (validation,
\* client creation, connect, ping or database access) no manager exists
\* and the client of that call is not connected; when the ping or the
\* database-access check failed, the client that had connected has been
\* disconnected.
C25_NoLeakOnFailure ==
    (dbcall.op = "NewMongoDBManager" /\ dbcall.err # "nil") =>
        /\ manager.nil
        /\ client # "connected"
        /\ dbcall.err \in {"MongoDB server ping failed",
                           "database access verification failed"}
              => client = "disconnected"
        /\ dbcall.err = "database configuration validation failed"
              => client = "none"

\* MongoDB is reachable but the database cannot be listed: the call failed
\* after Connect and the client is disconnected
C25_Witness ==
    /\ net.mongo = "up"
    /\ dbcall.op = "NewMongoDBManager"
    /\ dbcall.err = "database access verification failed"
    /\ validateDatabaseConfig(dbcall.arg) = "nil"
    /\ manager.nil
    /\ client = "disconnected"

----------------------------------------------------------------------------
(* C26: an optional file that fails to load *)

\* C26: when LoadFromJSONFile returns an error for config.<mode>.json or
\* config.local.json (missing, unreadable, malformed, or holding a value of
\* the wrong type), every field of the configuration is after the call
\* what it was before, the fields the document gives well-typed values
\* included.
C26_FailedFileContributesNothing ==
    [][ ( /\ pc \in {"environment", "local"}
          /\ LoadFromJSONFile(FileLoadedAt(pc), cfg).err # "nil" )
            => cfg' = cfg
      ]_vars

----------------------------------------------------------------------------
(* C27: the source of an override is chosen once *)

\* C27: when the variable of a field is set in the process environment to
\* a non-empty text that does not convert to the field's type, the
\* override step leaves the field as the files merged it, also when the
\* .env file holds a text for the same variable that would convert.
C27_SourceNotRevisited ==
    [][ (pc = "override") =>
            \A f \in ScalarFields :
                ( /\ env[f.env].set
                  /\ env[f.env].v # <<>>
                  /\ ~Converts(env[f.env].v, f.kind) )
                    => cfg'[f.name] = cfg[f.name]
      ]_vars

\* SERVER_PORT=no in the environment, SERVER_PORT=1 in .env: the port of
\* config.json is returned
C27_Witness ==
    /\ Succeeded
    /\ env["SERVER_PORT"] = SetTo(<<"n","o">>)
    /\ DotenvSetting("SERVER_PORT") = SetTo(<<"1">>)
    /\ fs.base.kind = "object" /\ fs.base.doc["server.port"] = JNum(8080)
    /\ ret.cfg["Server.Port"] = IntV(8080)

----------------------------------------------------------------------------
(* C28: the Environment field and the mode of the file path *)

\* C28: the Environment field of the config NewConfig returns is the
\* validated mode with which the path configs/config.<mode>.json was
\* built, whatever the files say under "environment" and whatever
\* ENVIRONMENT holds in the process environment or in .env.
C28_EnvironmentIsTheMode ==
    Succeeded => ret.cfg["Environment"] = StrV(environment)

----------------------------------------------------------------------------
(* C29: Ping and Close at the same time *)

HasReturned(p, op) == inflight[p].op = op /\ inflight[p].pc = "returned"

\* C29: when a Ping and a Close that ran in different goroutines have both
\* returned, in whatever order their statements were executed, the cached
\* status is false: IsConnected does not report true on a closed manager.
C29_ClosedAfterPingAndClose ==
    \A p, q \in Goroutines :
        (p # q /\ HasReturned(p, "Ping") /\ HasReturned(q, "Close"))
            => ~manager.isConnected

----------------------------------------------------------------------------
(* C30: main closes the database on its way out *)

\* a step in which dbManager.Close() is called
ClosesDatabase == dbcall'.op = "Close" /\ dbcall' # dbcall

\* C30: once NewMongoDBManager has handed main a manager, main does not
\* end before Close has been called on it, and calls it exactly once: the
\* call comes as main returns, as the first database call since the
\* creation, and only after the server's Shutdown has returned, with or
\* without an error (or after Start has returned an error).
C30_ClosedOnceAfterShutdown ==
    [][ /\ ClosesDatabase =>
              /\ mainPc = "return"
              /\ dbcall.op = "NewMongoDBManager"
              /\ \/ srvcall.op = "Shutdown" /\ httpServer.listener = "closed"
                 \/ srvcall.op = "Start" /\ srvcall.err # "nil"
        /\ (mainPc' = "exited" /\ ~manager'.nil) =>
              /\ dbcall'.op = "Close"
              /\ dbcall'.prev = "NewMongoDBManager"
              /\ deferred' = <<>>
              /\ ~manager'.isConnected
      ]_vars

\* the shutdown ran into its deadline and main has ended with the database
\* closed
C30_Witness ==
    /\ mainPc = "exited"
    /\ ~manager.nil
    /\ srvcall = ServerCalled("Shutdown", "context deadline exceeded")
    /\ dbcall.op = "Close" /\ dbcall.prev = "NewMongoDBManager"
    /\ client = "disconnected"

====
